---- MODULE Spec2Model ----
(***************************************************************************)
(* nodejs-server-pages: the FastCGI dispatcher (njsp.js), the runner       *)
(* process with its page cache and Response object (runner.js) and the     *)
(* SQLite session store (session.js).                                      *)
(***************************************************************************)
EXTENDS Integers, Sequences, FiniteSets, TLC

(***************************************************************************)
(* Bounds of the model.                                                    *)
(***************************************************************************)
MaxReq == 2
MaxWrites == 2
MaxCrash == 1

(* setTimeout(..., 30000) of run *)
DefaultTimeLimit == 30000

Requests == 1..MaxReq
(* createServer spawns one runner; every go() spawns at most two more *)
Workers == 1..(1 + 2 * MaxReq)
NoRes == 0

Methods == {"GET", "POST", "PUT"}
(* the pages of the document root: a page that compiles, a page with a
   syntax error, and a script name with no file behind it *)
Paths == {"ok", "bad", "gone"}
PageCodes == {200, 500}
PageLimits == {1000}

VARIABLES
    (* njsp.js *)
    readyThreads,   \* the array readyThreads: a sequence of runner ids
    nSpawned,       \* number of cp.fork calls so far; runners are 1..nSpawned
    cres,           \* c.res of every runner: the bound request, or NoRes
    reqState,       \* where each inbound request is in the request callback
    reqMeta,        \* script path and accept-encoding of the request (what run reads)
    httpEnded,      \* res.end() was called on the FastCGI response
    httpLog,        \* what was written to the FastCGI response, in order
    sendLog,        \* the runners each request was sent to (thr.send), in order
    (* the runner processes and the two directions of the IPC channel *)
    proc,           \* "none", "up", "dead" (exit not yet handled), "reaped"
    down,           \* messages from the dispatcher not yet read by the runner
    up,             \* messages from the runner not yet read by the dispatcher
    nCrash,
    (* runner.js: one Response object, unit and timer per request *)
    host,           \* the runner that ran run() for the request, or 0
    unit,           \* "none", "run" (promise pending), "done", "killed"
    thrown,         \* the promise of the unit was rejected (.catch ran)
    writes,         \* number of response.write calls of the page
    resp,           \* the Response object
    timer,          \* the armed setTimeouts of the request, by delay; the last is `timeout`
    emitted,        \* the process.send calls of the response, in order
    (* runner.js: the page cache of every runner, and the file system *)
    files,
    times,
    funcs,
    ncompile,       \* number of AsyncFunction objects the runner has constructed
    calls,          \* the last two compile calls of the runner for each file
    tpl,            \* a page as parse lowers it, and the run of its unit
    modules,        \* require.cache of each runner: the set of loaded module files
    breq,           \* a request with a body as run handles it, and the run of its unit
    (* session.js: the SQLite database shared by the runners, the clock, and
       one Session object (with its own connection) per handle *)
    table,          \* the committed rows of table session, in rowid order
    now,            \* datetime('now'), in seconds
    writer,         \* the connection holding the write lock, or 0
    sess,           \* the fields of the Session object
    pc,             \* where the pending session call of the handle stands
    txn,            \* the connection's transaction: mode and working rows
    loc,            \* the locals of the pending call: sid, row, key, value
    ret,            \* what the last completed call returned
    trace,          \* the last completed calls of the handle, oldest first
    clean,          \* how many of them ran after the last foreign write
    allocLog        \* the identifiers init has allocated, in order

dispVars == <<readyThreads, nSpawned, cres, reqState, reqMeta, httpEnded, httpLog, sendLog>>
procVars == <<proc, down, up, nCrash>>
unitVars == <<host, unit, thrown, writes, resp, timer, emitted>>
cacheVars == <<files, times, funcs, ncompile, calls, tpl, modules, breq>>
sessVars == <<table, now, writer, sess, pc, txn, loc, ret, trace, clean, allocLog>>
vars == <<dispVars, procVars, unitVars, cacheVars, sessVars>>

(***************************************************************************)
(* runner.js: Response                                                     *)
(***************************************************************************)
HeaderNames == {"content-type", "content-encoding"}

(* no header given; "" stands for a name that is not set *)
NoHeaders == [n \in HeaderNames |-> ""]

(* {"Content-type": "text/plain"}, lower-cased as writeHead and setHeader do *)
Plain == [NoHeaders EXCEPT !["content-type"] = "text/plain"]

(* a message of the runner: c its kind, x the status code of "h", h the
   headers of "h", f the file name of "x", of the request it belongs to *)
Msg(c, x, r) == [c |-> c, x |-> x, of |-> r, f |-> "", h |-> NoHeaders, z |-> FALSE]

(* process.send({c: "w", x: chunk.toString("binary")}) of the "data" event:
   z marks a chunk as output of the compressor *)
Compressed(r) == [Msg("w", 0, r) EXCEPT !.z = TRUE]

(* an error report that does not name the file *)
ReportMut(r) == Msg("x", 0, r)

(* process.send({c: "x", p: pname, f: fname, e: ..}) *)
Report(r) == [Msg("x", 0, r) EXCEPT !.f = reqMeta[r].path]

(* function Response() *)
NewResponse ==
    [code |-> 200, sentHeaders |-> FALSE, ended |-> FALSE,
     compression |-> "none", compressor |-> "none", pending |-> 0,
     headers |-> [NoHeaders EXCEPT !["content-type"] = "text/html"]]

(* Response.prototype.setHeader *)
SetHeader(R, name, value) == [R EXCEPT !.headers[name] = value]

(* for (const h in headers) this.headers[h.toLowerCase()] = headers[h] *)
Merged(R, hs) ==
    [R EXCEPT !.headers = [n \in HeaderNames |-> IF hs[n] # "" THEN hs[n] ELSE @[n]]]

Quiet(R) == [r |-> R, out |-> <<>>]

(* Response.prototype.compress: req = null turns compression off, otherwise
   the accept-encoding header of the request decides *)
Compress(R, enc) ==
    SetHeader([R EXCEPT !.compression = enc], "content-encoding",
              IF enc = "none" THEN "identity" ELSE enc)

(* a writeHead that looks at this.ended only *)
WriteHeadSkipsMut(R) == R.ended

(* if (this.ended || this.sentHeaders) return; *)
WriteHeadSkips(R) == R.ended \/ R.sentHeaders

(* Response.prototype.writeHead *)
WriteHead(R, code, r) ==
    IF WriteHeadSkips(R)
    THEN Quiet(R)
    ELSE [r |-> [R EXCEPT !.sentHeaders = TRUE, !.code = code],
          out |-> <<[Msg("h", code, r) EXCEPT !.h = R.headers]>>]

(* writeHead(code, headers) *)
WriteHeadGiven(R, code, hs, r) ==
    IF WriteHeadSkips(R) THEN Quiet(R) ELSE WriteHead(Merged(R, hs), code, r)

(* a write that does not look at this.ended *)
WriteMut(R, r) == [r |-> R, out |-> <<Msg("w", 0, r)>>]

(* Response.prototype.write: the chunk goes to the compressor when one is
   selected (it comes out later, in a "data" event), else straight out *)
Write(R, r) ==
    IF R.ended THEN Quiet(R)
    ELSE LET h == IF ~R.sentHeaders THEN WriteHead(R, 200, r) ELSE Quiet(R)
         IN  IF h.r.compression # "none"
             THEN [r |-> [h.r EXCEPT !.compressor = IF @ = "none" THEN "open" ELSE @,
                                     !.pending = @ + 1],
                   out |-> h.out]
             ELSE [r |-> h.r, out |-> h.out \o <<Msg("w", 0, r)>>]

EndDirectMut(R) == TRUE

EndDirect(R) == R.compressor = "none"

(* Response.prototype.end: with a compressor the "e" message is left to the
   compressor's "end" event *)
End(R, r) ==
    IF R.ended THEN Quiet(R)
    ELSE LET h == IF ~R.sentHeaders THEN WriteHead(R, 200, r) ELSE Quiet(R)
         IN  IF EndDirect(h.r)
             THEN [r |-> [h.r EXCEPT !.ended = TRUE], out |-> h.out \o <<Msg("e", 0, r)>>]
             ELSE [r |-> [h.r EXCEPT !.ended = TRUE, !.compressor = "ending"], out |-> h.out]

(***************************************************************************)
(* runner.js: the page cache (times, funcs) and compile                    *)
(***************************************************************************)
NoFunc == [id |-> 0, ver |-> 0]
NoTime == -1

(* the cache of a freshly forked runner *)
EmptyCache == [times |-> [p \in Paths |-> NoTime],
               funcs |-> [p \in Paths |-> NoFunc],
               n |-> 0]

CacheOf(w) == [times |-> times[w], funcs |-> funcs[w], n |-> ncompile[w]]

StillGoodMut(C, f, p) == C.times[p] # NoTime /\ f.mtime < C.times[p]

(* fname in times && sbuf.mtimeMs <= times[fname] *)
StillGood(C, f, p) == C.times[p] # NoTime /\ f.mtime <= C.times[p]

StoredMut(C, p, f, new) ==
    [times |-> [C.times EXCEPT ![p] = IF @ = NoTime THEN f.mtime ELSE @],
     funcs |-> [C.funcs EXCEPT ![p] = new],
     n |-> C.n + 1]

(* times[fname] = sbuf.mtimeMs; funcs[fname] = func: the cache with the
   newly constructed function *)
Stored(C, p, f, new) ==
    [times |-> [C.times EXCEPT ![p] = f.mtime],
     funcs |-> [C.funcs EXCEPT ![p] = new],
     n |-> C.n + 1]

FailedMut(C, p, f) ==
    [C EXCEPT !.times = [@ EXCEPT ![p] = f.mtime], !.funcs = [@ EXCEPT ![p] = NoFunc]]

(* new AsyncFunction(..) threw: the two assignments after it are not reached *)
Failed(C, p, f) == C

(* compile(fname): kind is "null" (statSync threw), "throw" (the
   AsyncFunction constructor threw) or "ok"; read tells whether readFileSync
   ran; cache is the cache afterwards.  Every constructed AsyncFunction is a
   new object: its id is the runner's count of constructions. *)
Compile(C, fs, p) ==
    LET f == fs[p]
        func == IF StillGood(C, f, p) THEN C.funcs[p] ELSE NoFunc
    IN  IF ~f.exists
        THEN [kind |-> "null", func |-> NoFunc, read |-> FALSE, cache |-> C]
        ELSE IF func # NoFunc
        THEN [kind |-> "ok", func |-> func, read |-> FALSE, cache |-> C]
        ELSE IF ~f.good
        THEN [kind |-> "throw", func |-> NoFunc, read |-> TRUE, cache |-> Failed(C, p, f)]
        ELSE LET new == [id |-> C.n + 1, ver |-> f.ver]
             IN  [kind |-> "ok", func |-> new, read |-> TRUE, cache |-> Stored(C, p, f, new)]

(* what a compile call saw and gave back, kept with the call before it *)
Logged(L, f, c) ==
    LET e == [mtime |-> IF f.exists THEN f.mtime ELSE NoTime,
              kind |-> c.kind, func |-> c.func, read |-> c.read]
    IN  IF L = <<>> THEN <<e>> ELSE <<L[Len(L)], e>>

(***************************************************************************)
(* njsp.js: spawnThread, the request callback of createServer              *)
(***************************************************************************)
SpawnFirstMut(rt) == FALSE

(* if (readyThreads.length === 0) spawnThread();   before the shift *)
SpawnFirst(rt) == rt = <<>>

(* a dispatcher that keeps no spare runner *)
SpawnSpareMut(rt) == FALSE

(* if (readyThreads.length === 0) spawnThread();   after the send *)
SpawnSpare(rt) == rt = <<>>

(* a dispatcher that hands every request to the first runner *)
ShiftMut(rt) == 1

(* var thr = readyThreads.shift() *)
Shift(rt) == Head(rt)

(* the runners forked by a go() that finds nSpawned runners and forks k more *)
Forked(k) == (nSpawned + 1)..(nSpawned + k)

(* go(body): take the first ready runner, forking one first when there is
   none; bind the response, send the "r" message; fork a spare runner when
   none is left.  A runner whose process is gone does not read the message. *)
Go(r) ==
    LET k1 == IF SpawnFirst(readyThreads) THEN 1 ELSE 0
        rt1 == IF k1 = 1 THEN Append(readyThreads, nSpawned + 1) ELSE readyThreads
    IN  IF rt1 = <<>>
        THEN (* readyThreads.shift() is undefined: thr.res = res throws *)
             /\ reqState' = [reqState EXCEPT ![r] = "dropped"]
             /\ UNCHANGED <<readyThreads, nSpawned, cres, sendLog, proc, down>>
        ELSE LET thr == Shift(rt1)
                 rt2 == Tail(rt1)
                 k2 == IF SpawnSpare(rt2) THEN 1 ELSE 0
                 new == Forked(k1 + k2)
                 live == proc[thr] = "up" \/ thr \in new
             IN  /\ reqState' = [reqState EXCEPT ![r] = "sent"]
                 /\ cres' = [cres EXCEPT ![thr] = r]
                 /\ sendLog' = [sendLog EXCEPT ![r] = Append(@, thr)]
                 /\ readyThreads' = IF k2 = 1 THEN Append(rt2, nSpawned + k1 + 1) ELSE rt2
                 /\ nSpawned' = nSpawned + k1 + k2
                 /\ proc' = [w \in Workers |-> IF w \in new THEN "up" ELSE proc[w]]
                 /\ down' = IF live THEN [down EXCEPT ![thr] = Append(@, r)] ELSE down

(* a dispatcher that runs go() for every method but POST *)
IsGetMut(m) == m # "POST"

(* req.method === "GET" *)
IsGet(m) == m = "GET"

(* The request callback: GET runs go() at once, POST collects the body
   first, any other method is answered 501 by the dispatcher itself. *)
Request(r, m, p, enc) ==
    /\ reqState[r] = "new"
    /\ \A q \in Requests : q < r => reqState[q] # "new"
    /\ reqMeta' = [reqMeta EXCEPT ![r] = [path |-> p, enc |-> enc]]
    /\ CASE IsGet(m) ->
              /\ Go(r)
              /\ UNCHANGED <<httpLog, httpEnded>>
         [] m = "POST" ->
              /\ reqState' = [reqState EXCEPT ![r] = "body"]
              /\ UNCHANGED <<readyThreads, nSpawned, cres, sendLog, proc, down,
                             httpLog, httpEnded>>
         [] OTHER ->
              /\ reqState' = [reqState EXCEPT ![r] = "refused"]
              /\ httpLog' = [httpLog EXCEPT ![r] = Append(@, Msg("h", 501, 0))]
              /\ httpEnded' = [httpEnded EXCEPT ![r] = TRUE]
              /\ UNCHANGED <<readyThreads, nSpawned, cres, sendLog, proc, down>>
    /\ UNCHANGED <<up, nCrash>>
    /\ UNCHANGED <<unitVars, cacheVars, sessVars>>

(* req.on("end") of a POST request *)
BodyEnd(r) ==
    /\ reqState[r] = "body"
    /\ Go(r)
    /\ UNCHANGED <<reqMeta, httpLog, httpEnded, up, nCrash>>
    /\ UNCHANGED <<unitVars, cacheVars, sessVars>>

(* case "e": readyThreads.push(c) *)
ReadyAfterEnd(w) == Append(readyThreads, w)

BoundAfterEndMut(w) == cres

(* case "e": c.res = null *)
BoundAfterEnd(w) == [cres EXCEPT ![w] = NoRes]

(* c.on("message"): relay the runner's message to the bound response; with
   no response bound the message is ignored; there is no case for "x" *)
OnMessage(w) ==
    /\ proc[w] # "none"
    /\ up[w] # <<>>
    /\ LET msg == Head(up[w])
           r == cres[w]
       IN  /\ up' = [up EXCEPT ![w] = Tail(@)]
           /\ IF r = NoRes
              THEN UNCHANGED <<readyThreads, cres, httpEnded, httpLog>>
              ELSE CASE msg.c \in {"h", "w"} ->
                          /\ httpLog' = [httpLog EXCEPT ![r] = Append(@, msg)]
                          /\ UNCHANGED <<readyThreads, cres, httpEnded>>
                     [] msg.c = "e" ->
                          /\ httpEnded' = [httpEnded EXCEPT ![r] = TRUE]
                          /\ cres' = BoundAfterEnd(w)
                          /\ readyThreads' = ReadyAfterEnd(w)
                          /\ UNCHANGED httpLog
                     [] OTHER ->
                          UNCHANGED <<readyThreads, cres, httpEnded, httpLog>>
    /\ UNCHANGED <<nSpawned, reqState, reqMeta, sendLog, proc, down, nCrash>>
    /\ UNCHANGED <<unitVars, cacheVars, sessVars>>

FirstIndex(s, w) == CHOOSE i \in 1..Len(s) : s[i] = w /\ \A j \in 1..(i - 1) : s[j] # w

ReadyAfterExitMut(w) == readyThreads

(* i = readyThreads.indexOf(c); if (i !== -1) readyThreads.splice(i, 1) *)
ReadyAfterExit(w) ==
    IF \E i \in 1..Len(readyThreads) : readyThreads[i] = w
    THEN LET i == FirstIndex(readyThreads, w)
         IN  SubSeq(readyThreads, 1, i - 1) \o SubSeq(readyThreads, i + 1, Len(readyThreads))
    ELSE readyThreads

EndedAfterExitMut(w) == httpEnded

(* if (c.res) { c.res.end(); ... } *)
EndedAfterExit(w) ==
    IF cres[w] # NoRes THEN [httpEnded EXCEPT ![cres[w]] = TRUE] ELSE httpEnded

(* c.on("exit") *)
OnExit(w) ==
    /\ proc[w] = "dead"
    /\ proc' = [proc EXCEPT ![w] = "reaped"]
    /\ readyThreads' = ReadyAfterExit(w)
    /\ httpEnded' = EndedAfterExit(w)
    /\ cres' = [cres EXCEPT ![w] = NoRes]
    /\ UNCHANGED <<nSpawned, reqState, reqMeta, httpLog, sendLog, down, up, nCrash>>
    /\ UNCHANGED <<unitVars, cacheVars, sessVars>>

(***************************************************************************)
(* runner.js: process.on("message"), run, the page's unit, the timer       *)
(***************************************************************************)
(* process.send from the runner w on behalf of the response of request r *)
Send(w, r, out) ==
    /\ up' = [up EXCEPT ![w] = @ \o out]
    /\ emitted' = [emitted EXCEPT ![r] = @ \o out]

RefuseMut(r, code, report) ==
    LET a == WriteHeadGiven(NewResponse, code, IF report THEN Plain ELSE NoHeaders, r)
        b == Write(a.r, r)
        c == End(b.r, r)
    IN  [r |-> c.r, out |-> <<Report(r)>> \o a.out \o b.out \o c.out]

RefuseSilentMut(r, code, report) ==
    LET a == WriteHeadGiven(NewResponse, code, IF report THEN Plain ELSE NoHeaders, r)
        b == Write(a.r, r)
        c == End(b.r, r)
    IN  [r |-> c.r, out |-> a.out \o b.out \o c.out]

(* run: the reply to a page that did not compile (report = TRUE, 500 with
   {"Content-type": "text/plain"}) or was not found (404): writeHead, write,
   end on the fresh Response *)
Refuse(r, code, report) ==
    LET a == WriteHeadGiven(NewResponse, code, IF report THEN Plain ELSE NoHeaders, r)
        b == Write(a.r, r)
        c == End(b.r, r)
    IN  [r |-> c.r,
         out |-> (IF report THEN <<Report(r)>> ELSE <<>>) \o a.out \o b.out \o c.out]

(* setTimeout(.., tl): one more armed timer, which `timeout` refers to *)
SetTimeout(T, tl) == Append(T, tl)

ClearTimeoutMut(T) == T

(* clearTimeout(timeout): the timer `timeout` refers to is no longer armed *)
ClearTimeout(T) == IF T = <<>> THEN <<>> ELSE SubSeq(T, 1, Len(T) - 1)

(* process.on("message") case "r": run(msg.d, msg.p, msg.r, msg.b, new Response()) *)
OnRun(w) ==
    /\ proc[w] = "up"
    /\ down[w] # <<>>
    /\ LET r == Head(down[w])
           c == Compile(CacheOf(w), files, reqMeta[r].path)
           fail == IF c.kind = "throw" THEN Refuse(r, 500, TRUE) ELSE Refuse(r, 404, FALSE)
       IN  /\ down' = [down EXCEPT ![w] = Tail(@)]
           /\ host' = [host EXCEPT ![r] = w]
           /\ times' = [times EXCEPT ![w] = c.cache.times]
           /\ funcs' = [funcs EXCEPT ![w] = c.cache.funcs]
           /\ ncompile' = [ncompile EXCEPT ![w] = c.cache.n]
           /\ calls' = [calls EXCEPT ![w][reqMeta[r].path] = Logged(@, files[reqMeta[r].path], c)]
           /\ IF c.kind = "ok"
              THEN /\ resp' = [resp EXCEPT ![r] = Compress(NewResponse, reqMeta[r].enc)]
                   /\ timer' = [timer EXCEPT ![r] = SetTimeout(@, DefaultTimeLimit)]
                   /\ unit' = [unit EXCEPT ![r] = "run"]
                   /\ UNCHANGED <<up, emitted>>
              ELSE /\ resp' = [resp EXCEPT ![r] = fail.r]
                   /\ unit' = [unit EXCEPT ![r] = "done"]
                   /\ Send(w, r, fail.out)
                   /\ UNCHANGED timer
    /\ UNCHANGED <<dispVars, proc, nCrash, thrown, writes, files, tpl, modules, breq, sessVars>>

(* the unit of request r is running (its promise is pending) in a live runner *)
Running(r) == unit[r] = "run" /\ proc[host[r]] = "up"

(* a call of the page on its response object: o is what the call returns *)
PageCall(r, o) ==
    /\ Running(r)
    /\ resp' = [resp EXCEPT ![r] = o.r]
    /\ Send(host[r], r, o.out)
    /\ UNCHANGED <<dispVars, proc, down, nCrash, host, thrown, unit, timer, cacheVars, sessVars>>

PageWrite(r) ==
    /\ writes[r] < MaxWrites
    /\ writes' = [writes EXCEPT ![r] = @ + 1]
    /\ PageCall(r, Write(resp[r], r))

PageWriteHead(r, code, hs) ==
    /\ PageCall(r, WriteHeadGiven(resp[r], code, hs, r))
    /\ UNCHANGED writes

(* response.setHeader(name, value) *)
PageSetHeader(r, name, value) ==
    /\ PageCall(r, Quiet(SetHeader(resp[r], name, value)))
    /\ UNCHANGED writes

PageEnd(r) ==
    /\ PageCall(r, End(resp[r], r))
    /\ UNCHANGED writes

(* response.compress(null) *)
PageCompressOff(r) ==
    /\ PageCall(r, Quiet(Compress(resp[r], "none")))
    /\ UNCHANGED writes

(* res.setTimeLimit(tl): clearTimeout(timeout); timeout = setTimeout(.., tl) *)
PageSetTimeLimit(r, tl) ==
    /\ Running(r)
    /\ timer' = [timer EXCEPT ![r] = SetTimeout(ClearTimeout(@), tl)]
    /\ UNCHANGED <<dispVars, procVars, host, thrown, unit, writes, resp, emitted, cacheVars, sessVars>>

(* finish(): s.close(); res.end(); ... *)
Finish(R, r) == End(R, r)

(* a module file: its name and its extension *)
Module(base, ext) == [base |-> base, ext |-> ext]

(* require.cache when runner.js takes its snapshot: the runner's own modules *)
requireCacheCleanState == {Module("multipart", "js"), Module("session", "js")}

(* what a page may require: a script, a JSON file, a compiled addon *)
PageModules == {Module("lib", "js"), Module("data", "json"), Module("addon", "node")}

(* /\.js(on)?$/.test(m) *)
IsScript(m) == m.ext \in {"js", "json"}

(* finish(): the entries of require.cache that are scripts and not in the
   snapshot are deleted *)
Purged(C) == {m \in C : ~(IsScript(m) /\ m \notin requireCacheCleanState)}

(* require(name) in a page: the module is loaded into require.cache *)
PageRequire(r, m) ==
    /\ Running(r)
    /\ modules' = [modules EXCEPT ![host[r]] = @ \cup {m}]
    /\ UNCHANGED <<dispVars, procVars, unitVars, sessVars>>
    /\ UNCHANGED <<files, times, funcs, ncompile, calls, tpl, breq>>

(* func(module).then: clearTimeout(timeout); finish() *)
Settle(r) ==
    /\ Running(r)
    /\ LET f == Finish(resp[r], r)
       IN  /\ resp' = [resp EXCEPT ![r] = f.r]
           /\ Send(host[r], r, f.out)
    /\ unit' = [unit EXCEPT ![r] = "done"]
    /\ timer' = [timer EXCEPT ![r] = ClearTimeout(@)]
    /\ modules' = [modules EXCEPT ![host[r]] = Purged(@)]
    /\ UNCHANGED <<dispVars, proc, down, nCrash, host, thrown, writes, sessVars>>
    /\ UNCHANGED <<files, times, funcs, ncompile, calls, tpl, breq>>

(* .catch: clearTimeout(timeout); process.send({c: "x", ..}); res.write("ERROR"); finish() *)
Throw(r) ==
    /\ Running(r)
    /\ LET e == Write(resp[r], r)
           f == Finish(e.r, r)
       IN  /\ resp' = [resp EXCEPT ![r] = f.r]
           /\ Send(host[r], r, <<Report(r)>> \o e.out \o f.out)
    /\ unit' = [unit EXCEPT ![r] = "done"]
    /\ thrown' = [thrown EXCEPT ![r] = TRUE]
    /\ timer' = [timer EXCEPT ![r] = ClearTimeout(@)]
    /\ modules' = [modules EXCEPT ![host[r]] = Purged(@)]
    /\ UNCHANGED <<dispVars, proc, down, nCrash, host, writes, sessVars>>
    /\ UNCHANGED <<files, times, funcs, ncompile, calls, tpl, breq>>

(* this.compressor.on("data") *)
CompressorData(r) ==
    /\ host[r] # 0 /\ proc[host[r]] = "up"
    /\ resp[r].compressor \in {"open", "ending"}
    /\ resp[r].pending > 0
    /\ resp' = [resp EXCEPT ![r].pending = @ - 1]
    /\ Send(host[r], r, <<Compressed(r)>>)
    /\ UNCHANGED <<dispVars, proc, down, nCrash, host, thrown, unit, writes, timer, cacheVars, sessVars>>

(* this.compressor.on("end"): after compressor.end() and the last "data" *)
CompressorEnd(r) ==
    /\ host[r] # 0 /\ proc[host[r]] = "up"
    /\ resp[r].compressor = "ending"
    /\ resp[r].pending = 0
    /\ resp' = [resp EXCEPT ![r].compressor = "closed"]
    /\ Send(host[r], r, <<Msg("e", 0, r)>>)
    /\ UNCHANGED <<dispVars, proc, down, nCrash, host, thrown, unit, writes, timer, cacheVars, sessVars>>

ExitedMut(w) == proc

(* process.exit(0): the process is gone, its exit event is to come *)
Exited(w) == [proc EXCEPT ![w] = "dead"]

(* Everything in the runner w dies with the process: its units, its timers,
   the messages it has not read.  What it already sent is still in the
   channel (a message lost at exit behaves like one read after the exit
   handler ran: it is ignored). *)
Exit(w) ==
    /\ proc' = Exited(w)
    /\ unit' = [r \in Requests |-> IF host[r] = w /\ unit[r] = "run" /\ proc'[w] = "dead"
                                   THEN "killed" ELSE unit[r]]
    /\ timer' = [r \in Requests |-> IF host[r] = w THEN <<>> ELSE timer[r]]
    /\ down' = [down EXCEPT ![w] = <<>>]

(* the setTimeout callback of run / setTimeLimit: process.exit(0) *)
Timeout(r) ==
    /\ timer[r] # <<>>
    /\ proc[host[r]] = "up"
    /\ Exit(host[r])
    /\ UNCHANGED <<dispVars, up, nCrash, host, thrown, writes, resp, emitted, cacheVars, sessVars>>

(* the runner dies for a reason of its own (killed, out of memory, an
   uncaught exception in a callback of a page) *)
Crash(w) ==
    /\ proc[w] = "up"
    /\ nCrash < MaxCrash
    /\ nCrash' = nCrash + 1
    /\ Exit(w)
    /\ UNCHANGED <<dispVars, up, host, thrown, writes, resp, emitted, cacheVars, sessVars>>

(* compile(fname) called again in a runner: by run, or by a page through
   compile(name) and include(name) *)
CompileCall(w, p) ==
    /\ proc[w] = "up"
    /\ LET c == Compile(CacheOf(w), files, p)
       IN  /\ times' = [times EXCEPT ![w] = c.cache.times]
           /\ funcs' = [funcs EXCEPT ![w] = c.cache.funcs]
           /\ ncompile' = [ncompile EXCEPT ![w] = c.cache.n]
           /\ calls' = [calls EXCEPT ![w][p] = Logged(@, files[p], c)]
    /\ UNCHANGED <<dispVars, procVars, unitVars, files, tpl, modules, breq, sessVars>>

(* the file system under the runners: a page is written (its mtime becomes
   m, later or earlier), edited with its mtime kept, removed or created *)
WriteFile(p, m, ver, good) ==
    /\ files' = [files EXCEPT ![p] = [exists |-> TRUE, mtime |-> m, good |-> good, ver |-> ver]]
    /\ UNCHANGED <<dispVars, procVars, unitVars, times, funcs, ncompile, calls, tpl, modules, breq, sessVars>>

RemoveFile(p) ==
    /\ files[p].exists
    /\ files' = [files EXCEPT ![p].exists = FALSE]
    /\ UNCHANGED <<dispVars, procVars, unitVars, times, funcs, ncompile, calls, tpl, modules, breq, sessVars>>

(***************************************************************************)
(* runner.js: parse, parseJS, and the unit they make of a page             *)
(***************************************************************************)
MaxSegs == 3

(* what a page is made of: text, text that is only white space, a tag
   <?JS .. ?> and a no-direct tag <?JS! .. ?> *)
SegKinds == {"text", "blank", "js", "nodirect"}

Pages == UNION {[1..n -> SegKinds] : n \in 0..MaxSegs}

(* parseJS: the code of a tag, after the test of module.included when the
   tag has the "!" *)
parseJS(k) == IF k = "nodirect" THEN <<"guard", "js">> ELSE <<"js">>

RECURSIVE parse(_)
(* parse(file): write(..) for the text before a tag and after the last one,
   unless part.trim() === "", and the code of the tags, in their order *)
parse(file) ==
    IF file = <<>> THEN <<>>
    ELSE (CASE Head(file) = "text" -> <<"write">>
            [] Head(file) = "blank" -> <<>>
            [] OTHER -> parseJS(Head(file))) \o parse(Tail(file))

(* the unit of a page before its first statement: module.included, the code,
   the next statement, the statements of the page run so far *)
Unit(file, included) ==
    [file |-> file, included |-> included, code |-> parse(file), ip |-> 1, ran |-> 0,
     res |-> NewResponse, out |-> <<>>]

(* the next statement of the unit.  write(..) is res.write; the test of a
   no-direct tag is  if (!module.included) { module.writeHead(500); return; }
   the code of a tag is taken to leave the response alone *)
RunStatement ==
    /\ tpl.ip <= Len(tpl.code)
    /\ LET c == tpl.code[tpl.ip]
           o == IF c = "write" THEN Write(tpl.res, 1)
                ELSE IF c = "guard" /\ ~tpl.included THEN WriteHead(tpl.res, 500, 1)
                ELSE Quiet(tpl.res)
       IN  tpl' = [tpl EXCEPT !.res = o.r, !.out = @ \o o.out,
                              !.ran = IF c = "guard" THEN @ ELSE @ + 1,
                              !.ip = IF c = "guard" /\ ~tpl.included
                                     THEN Len(tpl.code) + 1 ELSE @ + 1]
    /\ UNCHANGED <<dispVars, procVars, unitVars, files, times, funcs, ncompile, calls, modules, breq, sessVars>>

(* the unit has returned: finish() calls res.end() *)
UnitReturn ==
    /\ tpl.ip = Len(tpl.code) + 1
    /\ LET o == Finish(tpl.res, 1)
       IN  tpl' = [tpl EXCEPT !.res = o.r, !.out = @ \o o.out, !.ip = @ + 1]
    /\ UNCHANGED <<dispVars, procVars, unitVars, files, times, funcs, ncompile, calls, modules, breq, sessVars>>

(***************************************************************************)
(* runner.js: run, the body of the request                                 *)
(***************************************************************************)
(* a content-type header as the client sends it: the type and its
   parameters; <<>> stands for no header *)
BodyHeaders ==
    {<<>>, <<"text/plain">>, <<"application/json">>, <<"application/json", "charset=utf-8">>,
     <<"application/x-www-form-urlencoded">>, <<"multipart/form-data", "boundary=x">>,
     <<"multipart/form-data">>, <<"image/png">>}

(* msg.b: undefined for GET; for POST the bytes received, which may be none,
   well-formed for the type, or not *)
BodyData == {"empty", "good", "bad"}

(* (req.headers["content-type"] || "text/plain"), contentRE.exec(ct)[1] *)
ContentType(h) == IF h = <<>> THEN "text/plain" ELSE h[1]

(* the cases of the switch *)
Supported == {"application/json", "application/x-www-form-urlencoded", "multipart/form-data", "text/plain"}

(* boundaryRE.exec(req.headers["content-type"]) is null *)
NoBoundary(h) == Len(h) < 2

(* the case of the switch throws: JSON.parse on text that is not JSON,
   boundary[1] on a header without boundary; querystring.parse, toString and
   multipart.Parse take any text *)
ParseThrows(h, data) ==
    \/ ContentType(h) = "application/json" /\ data = "bad"
    \/ ContentType(h) = "multipart/form-data" /\ NoBoundary(h)

(* if (body): undefined and the empty string are falsy *)
Truthy(data) == data \notin {"none", "empty"}

(* the request as the runner receives it *)
NewBody(m, h, data) ==
    [stage |-> "new", m |-> m, h |-> h, data |-> data,
     bodyRaw |-> FALSE, body |-> FALSE, bodyException |-> FALSE,
     ran |-> FALSE, writes |-> 0, res |-> NewResponse, out |-> <<>>]

(* run: "Handle the body" *)
HandleBody ==
    /\ breq.stage = "new"
    /\ breq' = IF ~Truthy(breq.data)
               THEN [breq EXCEPT !.stage = "parsed"]
               ELSE [breq EXCEPT !.stage = "parsed", !.bodyRaw = TRUE,
                                 !.body = ContentType(breq.h) \in Supported /\ ~ParseThrows(breq.h, breq.data),
                                 !.bodyException = ContentType(breq.h) \in Supported /\ ParseThrows(breq.h, breq.data)]
    /\ UNCHANGED <<dispVars, procVars, unitVars, files, times, funcs, ncompile, calls, tpl, modules, sessVars>>

(* the unit runs and writes *)
BodyUnitWrite ==
    /\ breq.stage = "parsed"
    /\ breq.writes < MaxWrites
    /\ LET o == Write(breq.res, 1)
       IN  breq' = [breq EXCEPT !.res = o.r, !.out = @ \o o.out, !.ran = TRUE, !.writes = @ + 1]
    /\ UNCHANGED <<dispVars, procVars, unitVars, files, times, funcs, ncompile, calls, tpl, modules, sessVars>>

(* the unit returns, or throws: res.write("ERROR"); then finish() *)
BodyUnitSettle(t) ==
    /\ breq.stage = "parsed"
    /\ LET e == IF t THEN Write(breq.res, 1) ELSE Quiet(breq.res)
           f == Finish(e.r, 1)
       IN  breq' = [breq EXCEPT !.res = f.r, !.out = @ \o e.out \o f.out, !.ran = TRUE,
                                !.stage = "done"]
    /\ UNCHANGED <<dispVars, procVars, unitVars, files, times, funcs, ncompile, calls, tpl, modules, sessVars>>

(***************************************************************************)
(* session.js: Session over one shared SQLite database                     *)
(***************************************************************************)
NumSess == 2
NumSids == 2
MaxCalls == 4
MaxNow == 1

(* config.expiry || 60*60*24*30*6, in seconds *)
DefaultExpiry == 15552000

Handles == 1..NumSess
(* what part() + part() + part() can return *)
Sids == {ToString(i) : i \in 1..NumSids}
(* sid = null, and a request without the NJSPSESSID cookie *)
NoSid == ""
Keys == {"njspsessid", "k"}
Values == {"v1", "v2"}
Expiries == {DefaultExpiry, 1}

(* JSON.stringify and JSON.parse on the values a page stores *)
Stringify(v) == [json |-> v]

Parse(text) == text.json

Row(sid, key, value, expires) == [sid |-> sid, key |-> key, value |-> value, expires |-> expires]

(* SELECT * FROM session WHERE sid=@SID *)
RowsOfSid(t, sid) == SelectSeq(t, LAMBDA x : x.sid = sid)

(* SELECT value FROM session WHERE sid=@SID AND key=@KEY *)
RowsOfKey(t, sid, key) == SelectSeq(t, LAMBDA x : x.sid = sid /\ x.key = key)

(* DELETE FROM session WHERE sid=@SID AND key=@KEY *)
DeleteKey(t, sid, key) == SelectSeq(t, LAMBDA x : ~(x.sid = sid /\ x.key = key))

(* a comparison that spares the rows expiring now *)
ExpiredMut(x, time) == x.expires < time

(* expires<=datetime('now') *)
Expired(x, time) == x.expires <= time

(* DELETE FROM session WHERE expires<=datetime('now') *)
DeleteExpired(t, time) == SelectSeq(t, LAMBDA x : ~Expired(x, time))

(* INSERT INTO session VALUES (@SID, @KEY, @VALUE, datetime('now', expiry seconds)) *)
Insert(t, sid, key, value, expiry) == Append(t, Row(sid, key, Stringify(value), now + expiry))

NoTxn == [mode |-> "none", rows |-> <<>>]

(* SQLite in WAL mode.  BEGIN TRANSACTION is deferred: the first SELECT
   takes a snapshot of the committed rows, the first write takes the write
   lock.  A write fails with SQLITE_BUSY while another connection holds the
   lock, or when the snapshot it read is no longer the committed state. *)
CanWriteMut(h) == writer \in {0, h}

CanWrite(h) ==
    /\ writer \in {0, h}
    /\ txn[h].mode = "read" => txn[h].rows = table

(* the rows a statement of the connection sees *)
Seen(h) == IF txn[h].mode \in {"read", "write"} THEN txn[h].rows ELSE table

(* the locals of a call that is not running *)
NoLocals == [sid |-> NoSid, row |-> FALSE, key |-> "", value |-> ""]

(* a completed call: what the page gets back, and the handle's history *)
Return(h, call, value) ==
    /\ pc' = [pc EXCEPT ![h] = "idle"]
    /\ ret' = [ret EXCEPT ![h] = value]
    /\ loc' = [loc EXCEPT ![h] = NoLocals]
    /\ trace' = [trace EXCEPT ![h] = Append(@, [call EXCEPT !.value = value])]

(* init returns (or its promise is rejected) *)
InitReturn(h, value) ==
    /\ pc' = [pc EXCEPT ![h] = "idle"]
    /\ ret' = [ret EXCEPT ![h] = value]
    /\ loc' = [loc EXCEPT ![h] = NoLocals]

(* clean after the connection h changed the committed rows to u: the
   handles whose session's rows changed start over *)
Disturbed(h, u) ==
    [g \in Handles |->
        IF g # h /\ sess[g].sid # NoSid /\ RowsOfSid(table, sess[g].sid) # RowsOfSid(u, sess[g].sid)
        THEN 0 ELSE clean[g]]

Counted(c, h) == [c EXCEPT ![h] = @ + 1]

Call(op, key, value) == [op |-> op, key |-> key, value |-> value]

(* an init that runs whenever it is called *)
InitSkipsMut(h) == FALSE

(* if (this.inited) return; *)
InitSkips(h) == sess[h].inited

(* where init stands between its call and its return *)
InitPcs == {"schema", "check", "begin", "select", "insert", "commit", "rollback", "cleanup"}

(* Session.prototype.init up to the first statement: a second call returns
   at once; the four statements that create the table and the indexes are
   taken as done *)
InitCall(h, expiry) ==
    /\ pc[h] = "idle"
    /\ ~InitSkips(h)
    /\ sess' = [sess EXCEPT ![h].inited = TRUE, ![h].expiry = expiry]
    /\ pc' = [pc EXCEPT ![h] = "schema"]
    /\ UNCHANGED <<table, now, writer, txn, loc, ret, trace, clean, allocLog>>
    /\ UNCHANGED <<dispVars, procVars, unitVars, cacheVars>>

(* a generator that always gives the same candidate *)
RetryMut(h) ==
    /\ loc' = [loc EXCEPT ![h].sid = "1"]
    /\ pc' = [pc EXCEPT ![h] = "begin"]

(* the next round of the allocation loop: a new candidate, then BEGIN *)
Retry(h) ==
    \E c \in Sids :
        /\ loc' = [loc EXCEPT ![h].sid = c]
        /\ pc' = [pc EXCEPT ![h] = "begin"]

(* response.setHeader("set-cookie", cook); this.sid = sid; then cleanup() *)
Materialize(h, sid) ==
    /\ sess' = [sess EXCEPT ![h].setCookie = sid, ![h].sid = sid]
    /\ loc' = [loc EXCEPT ![h] = NoLocals]
    /\ pc' = [pc EXCEPT ![h] = "cleanup"]

(* an init that does not ask for a response *)
AfterCookieMut(h, sid) ==
    IF sid = NoSid
    THEN Retry(h) /\ UNCHANGED <<sess, ret>>
    ELSE Materialize(h, sid) /\ UNCHANGED ret

(* init after the cookie was looked at: sid is the valid session id of the
   cookie, or null *)
AfterCookie(h, sid) ==
    IF ~sess[h].response
    THEN (* if (!this.response) return; *)
         /\ InitReturn(h, "undefined")
         /\ UNCHANGED sess
    ELSE IF sid = NoSid
    THEN Retry(h) /\ UNCHANGED <<sess, ret>>
    ELSE Materialize(h, sid) /\ UNCHANGED ret

(* "cookie" in this.request.headers, "NJSPSESSID" in cookies *)
InitSchema(h) ==
    /\ pc[h] = "schema"
    /\ IF sess[h].cookie # NoSid
       THEN /\ pc' = [pc EXCEPT ![h] = "check"]
            /\ UNCHANGED <<sess, loc, ret>>
       ELSE AfterCookie(h, NoSid)
    /\ UNCHANGED <<table, now, writer, txn, trace, clean, allocLog>>
    /\ UNCHANGED <<dispVars, procVars, unitVars, cacheVars>>

(* an init that takes the cookie's word *)
ValidMut(t, sid) == TRUE

(* row = await this.dbGet("SELECT * FROM session WHERE sid=@SID;"); !!row *)
Valid(t, sid) == RowsOfSid(t, sid) # <<>>

(* row = await this.dbGet("SELECT * FROM session WHERE sid=@SID;"); if (!row) sid = null *)
InitCheck(h) ==
    /\ pc[h] = "check"
    /\ AfterCookie(h, IF Valid(table, sess[h].cookie) THEN sess[h].cookie ELSE NoSid)
    /\ UNCHANGED <<table, now, writer, txn, trace, clean, allocLog>>
    /\ UNCHANGED <<dispVars, procVars, unitVars, cacheVars>>

(* await this.run("BEGIN TRANSACTION;") of init *)
InitBegin(h) ==
    /\ pc[h] = "begin"
    /\ txn' = [txn EXCEPT ![h] = [mode |-> "begun", rows |-> <<>>]]
    /\ pc' = [pc EXCEPT ![h] = "select"]
    /\ UNCHANGED <<table, now, writer, sess, loc, ret, trace, clean, allocLog>>
    /\ UNCHANGED <<dispVars, procVars, unitVars, cacheVars>>

(* row = await this.dbGet("SELECT * FROM session WHERE sid=@SID;") in the transaction *)
InitSelect(h) ==
    /\ pc[h] = "select"
    /\ txn' = [txn EXCEPT ![h] = [mode |-> "read", rows |-> table]]
    /\ loc' = [loc EXCEPT ![h].row = RowsOfSid(table, loc[h].sid) # <<>>]
    /\ pc' = [pc EXCEPT ![h] = IF loc'[h].row THEN "commit" ELSE "insert"]
    /\ UNCHANGED <<table, now, writer, sess, ret, trace, clean, allocLog>>
    /\ UNCHANGED <<dispVars, procVars, unitVars, cacheVars>>

(* if (!row) await this.run("INSERT INTO session VALUES (@SID, "njspsessid", ..)");
   an exception leads to rollback(this.db) *)
InitInsert(h) ==
    /\ pc[h] = "insert"
    /\ IF CanWrite(h)
       THEN /\ writer' = h
            /\ txn' = [txn EXCEPT ![h] = [mode |-> "write",
                          rows |-> Insert(Seen(h), loc[h].sid, "njspsessid", loc[h].sid, sess[h].expiry)]]
            /\ pc' = [pc EXCEPT ![h] = "commit"]
       ELSE /\ pc' = [pc EXCEPT ![h] = "rollback"]
            /\ UNCHANGED <<writer, txn>>
    /\ UNCHANGED <<table, now, sess, loc, ret, trace, clean, allocLog>>
    /\ UNCHANGED <<dispVars, procVars, unitVars, cacheVars>>

AllocatedMut(h) == TRUE

(* if (!row) break; *)
Allocated(h) == ~loc[h].row

(* await this.run("COMMIT;") of init, then leave the loop or go round again *)
InitCommit(h) ==
    /\ pc[h] = "commit"
    /\ LET u == IF txn[h].mode = "write" THEN txn[h].rows ELSE table
       IN  /\ table' = u
           /\ clean' = Disturbed(h, u)
    /\ writer' = IF writer = h THEN 0 ELSE writer
    /\ txn' = [txn EXCEPT ![h] = NoTxn]
    /\ IF Allocated(h)
       THEN /\ Materialize(h, loc[h].sid)
            /\ allocLog' = Append(allocLog, loc[h].sid)
       ELSE /\ Retry(h)
            /\ UNCHANGED <<sess, allocLog>>
    /\ UNCHANGED <<now, ret, trace>>
    /\ UNCHANGED <<dispVars, procVars, unitVars, cacheVars>>

(* rollback(db): ROLLBACK, errors ignored; then the loop goes round again *)
InitRollback(h) ==
    /\ pc[h] = "rollback"
    /\ writer' = IF writer = h THEN 0 ELSE writer
    /\ txn' = [txn EXCEPT ![h] = NoTxn]
    /\ Retry(h)
    /\ UNCHANGED <<table, now, sess, ret, trace, clean, allocLog>>
    /\ UNCHANGED <<dispVars, procVars, unitVars, cacheVars>>

(* Session.prototype.cleanup, awaited by init: the DELETE runs outside a
   transaction; SQLITE_BUSY rejects the promise of init *)
Cleanup(h) ==
    /\ pc[h] = "cleanup"
    /\ IF CanWrite(h)
       THEN LET u == DeleteExpired(table, now)
            IN  /\ table' = u
                /\ clean' = Disturbed(h, u)
                /\ InitReturn(h, "undefined")
       ELSE /\ InitReturn(h, "SQLITE_BUSY")
            /\ UNCHANGED <<table, clean>>
    /\ UNCHANGED <<now, writer, sess, txn, trace, allocLog>>
    /\ UNCHANGED <<dispVars, procVars, unitVars, cacheVars>>

RECURSIVE CallsUpTo(_)
(* Session.prototype.init called on a handle it was called on before, while
   the first call runs or after it: the call returns at once *)
InitAgain(h) ==
    /\ InitSkips(h)
    /\ CallsUpTo(NumSess) < MaxCalls
    /\ trace' = [trace EXCEPT ![h] = Append(@, Call("init", "", "undefined"))]
    /\ UNCHANGED <<table, now, writer, sess, pc, txn, loc, ret, clean, allocLog>>
    /\ UNCHANGED <<dispVars, procVars, unitVars, cacheVars>>


(* the set, get and delete calls made so far, completed or pending *)
CallsUpTo(h) ==
    IF h = 0 THEN 0
    ELSE CallsUpTo(h - 1) + Len(trace[h])
             + (IF pc[h] \in {"g_select", "s_begin", "s_delete", "s_insert", "s_commit",
                              "s_rollback", "d_delete"} THEN 1 ELSE 0)

(* the pages call set, get and delete MaxCalls times in all *)
MayCall(h) == pc[h] = "idle" /\ CallsUpTo(NumSess) < MaxCalls

(* Session.prototype.get *)
GetCall(h, key) ==
    /\ MayCall(h)
    /\ IF sess[h].sid = NoSid
       THEN /\ Return(h, Call("get", key, ""), "false")
            /\ clean' = Counted(clean, h)
       ELSE /\ loc' = [loc EXCEPT ![h].key = key]
            /\ pc' = [pc EXCEPT ![h] = "g_select"]
            /\ UNCHANGED <<ret, trace, clean>>
    /\ UNCHANGED <<table, now, writer, sess, txn, allocLog>>
    /\ UNCHANGED <<dispVars, procVars, unitVars, cacheVars>>

(* dbGet gives the first row; return JSON.parse(row.value) *)
Found(rows) == Parse(rows[1].value)

(* the page reads MaxReads times before init has returned *)
MaxReads == 2

(* a read that throws when the session has no sid *)
AbsentMut(op) == "TypeError"

(* if (!this.sid) return false;  of get, and  return null;  of getAll *)
Absent(op) == IF op = "get" THEN "false" ELSE "null"

(* for (const row of rows) ret[row.key] = JSON.parse(row.value): a later row
   of a key overwrites an earlier one *)
AllOf(rows) ==
    [k \in {rows[i].key : i \in 1..Len(rows)} |->
        Parse(rows[CHOOSE i \in 1..Len(rows) :
                       rows[i].key = k /\ \A j \in (i + 1)..Len(rows) : rows[j].key # k].value)]

(* Session.prototype.get and getAll called before init was called or while
   it runs: without a sid they return at once, with one (cleanup is pending)
   they read the committed rows *)
Read(h, op, key) ==
    /\ ~sess[h].inited \/ pc[h] \in InitPcs
    /\ pc[h] \in InitPcs \cup {"idle"}
    /\ Len(trace[h]) < MaxReads
    /\ LET rows == RowsOfKey(table, sess[h].sid, key)
           value == IF sess[h].sid = NoSid THEN Absent(op)
                    ELSE IF op = "getAll" THEN AllOf(RowsOfSid(table, sess[h].sid))
                    ELSE IF rows = <<>> THEN "null" ELSE Found(rows)
       IN  trace' = [trace EXCEPT ![h] = Append(@, Call(op, key, value))]
    /\ UNCHANGED <<table, now, writer, sess, pc, txn, loc, ret, clean, allocLog>>
    /\ UNCHANGED <<dispVars, procVars, unitVars, cacheVars>>

GetSelect(h) ==
    /\ pc[h] = "g_select"
    /\ LET rows == RowsOfKey(table, sess[h].sid, loc[h].key)
       IN  Return(h, Call("get", loc[h].key, ""), IF rows = <<>> THEN "null" ELSE Found(rows))
    /\ clean' = Counted(clean, h)
    /\ UNCHANGED <<table, now, writer, sess, txn, allocLog>>
    /\ UNCHANGED <<dispVars, procVars, unitVars, cacheVars>>

(* Session.prototype.set up to BEGIN TRANSACTION *)
SetCall(h, key, value) ==
    /\ MayCall(h)
    /\ IF sess[h].sid = NoSid
       THEN /\ Return(h, Call("set", key, value), value)
            /\ clean' = Counted(clean, h)
       ELSE /\ loc' = [loc EXCEPT ![h].key = key, ![h].value = value]
            /\ pc' = [pc EXCEPT ![h] = "s_begin"]
            /\ UNCHANGED <<ret, trace, clean>>
    /\ UNCHANGED <<table, now, writer, sess, txn, allocLog>>
    /\ UNCHANGED <<dispVars, procVars, unitVars, cacheVars>>

SetBegin(h) ==
    /\ pc[h] = "s_begin"
    /\ txn' = [txn EXCEPT ![h] = [mode |-> "begun", rows |-> <<>>]]
    /\ pc' = [pc EXCEPT ![h] = "s_delete"]
    /\ UNCHANGED <<table, now, writer, sess, loc, ret, trace, clean, allocLog>>
    /\ UNCHANGED <<dispVars, procVars, unitVars, cacheVars>>

SetDeletedMut(t, sid, key) == t

(* DELETE FROM session WHERE sid=@SID AND key=@KEY of set *)
SetDeleted(t, sid, key) == DeleteKey(t, sid, key)

SetDelete(h) ==
    /\ pc[h] = "s_delete"
    /\ IF CanWrite(h)
       THEN /\ writer' = h
            /\ txn' = [txn EXCEPT ![h] = [mode |-> "write",
                          rows |-> SetDeleted(table, sess[h].sid, loc[h].key)]]
            /\ pc' = [pc EXCEPT ![h] = "s_insert"]
       ELSE /\ pc' = [pc EXCEPT ![h] = "s_rollback"]
            /\ UNCHANGED <<writer, txn>>
    /\ UNCHANGED <<table, now, sess, loc, ret, trace, clean, allocLog>>
    /\ UNCHANGED <<dispVars, procVars, unitVars, cacheVars>>

(* a value JSON.stringify throws on: an object that refers to itself *)
Circular == "circular"

SetValues == Values \cup {Circular}

(* JSON.stringify(value) returns *)
Serializable(v) == v # Circular

(* INSERT of set: its argument JSON.stringify(value) is evaluated inside the
   try, so an exception leads to rollback(this.db) *)
SetInsert(h) ==
    /\ pc[h] = "s_insert"
    /\ IF Serializable(loc[h].value)
       THEN /\ txn' = [txn EXCEPT ![h].rows =
                          Insert(@, sess[h].sid, loc[h].key, loc[h].value, sess[h].expiry)]
            /\ pc' = [pc EXCEPT ![h] = "s_commit"]
       ELSE /\ pc' = [pc EXCEPT ![h] = "s_rollback"]
            /\ UNCHANGED txn
    /\ UNCHANGED <<table, now, writer, sess, loc, ret, trace, clean, allocLog>>
    /\ UNCHANGED <<dispVars, procVars, unitVars, cacheVars>>

(* COMMIT of set; break *)
SetCommit(h) ==
    /\ pc[h] = "s_commit"
    /\ table' = txn[h].rows
    /\ clean' = Counted(Disturbed(h, txn[h].rows), h)
    /\ writer' = 0
    /\ txn' = [txn EXCEPT ![h] = NoTxn]
    /\ Return(h, Call("set", loc[h].key, loc[h].value), loc[h].value)
    /\ UNCHANGED <<now, sess, allocLog>>
    /\ UNCHANGED <<dispVars, procVars, unitVars, cacheVars>>

(* catch (ex) { await rollback(this.db); } of set, and the next round *)
SetRollback(h) ==
    /\ pc[h] = "s_rollback"
    /\ writer' = IF writer = h THEN 0 ELSE writer
    /\ txn' = [txn EXCEPT ![h] = NoTxn]
    /\ pc' = [pc EXCEPT ![h] = "s_begin"]
    /\ UNCHANGED <<table, now, sess, loc, ret, trace, clean, allocLog>>
    /\ UNCHANGED <<dispVars, procVars, unitVars, cacheVars>>

(* Session.prototype.delete: one DELETE outside a transaction *)
DeleteCall(h, key) ==
    /\ MayCall(h)
    /\ IF sess[h].sid = NoSid
       THEN /\ Return(h, Call("delete", key, ""), "undefined")
            /\ clean' = Counted(clean, h)
       ELSE /\ loc' = [loc EXCEPT ![h].key = key]
            /\ pc' = [pc EXCEPT ![h] = "d_delete"]
            /\ UNCHANGED <<ret, trace, clean>>
    /\ UNCHANGED <<table, now, writer, sess, txn, allocLog>>
    /\ UNCHANGED <<dispVars, procVars, unitVars, cacheVars>>

DeleteRun(h) ==
    /\ pc[h] = "d_delete"
    /\ IF CanWrite(h)
       THEN LET u == DeleteKey(table, sess[h].sid, loc[h].key)
            IN  /\ table' = u
                /\ clean' = Counted(Disturbed(h, u), h)
                /\ Return(h, Call("delete", loc[h].key, ""), "undefined")
       ELSE /\ Return(h, Call("delete", loc[h].key, ""), "SQLITE_BUSY")
            /\ clean' = Counted(clean, h)
            /\ UNCHANGED table
    /\ UNCHANGED <<now, writer, sess, txn, allocLog>>
    /\ UNCHANGED <<dispVars, procVars, unitVars, cacheVars>>

(* a second passes *)
Tick ==
    /\ now < MaxNow
    /\ now' = now + 1
    /\ UNCHANGED <<table, writer, sess, pc, txn, loc, ret, trace, clean, allocLog>>
    /\ UNCHANGED <<dispVars, procVars, unitVars, cacheVars>>

(***************************************************************************)
(* The dispatcher with its runners                                          *)
(***************************************************************************)
PageFiles ==
    [p \in Paths |-> [exists |-> p # "gone", mtime |-> 1, good |-> p # "bad", ver |-> 1]]

DispInit ==
    /\ readyThreads = <<1>>
    /\ nSpawned = 1
    /\ cres = [w \in Workers |-> NoRes]
    /\ reqState = [r \in Requests |-> "new"]
    /\ reqMeta = [r \in Requests |-> [path |-> "ok", enc |-> "none"]]
    /\ httpEnded = [r \in Requests |-> FALSE]
    /\ httpLog = [r \in Requests |-> <<>>]
    /\ sendLog = [r \in Requests |-> <<>>]
    /\ proc = [w \in Workers |-> IF w = 1 THEN "up" ELSE "none"]
    /\ down = [w \in Workers |-> <<>>]
    /\ up = [w \in Workers |-> <<>>]
    /\ nCrash = 0
    /\ host = [r \in Requests |-> 0]
    /\ thrown = [r \in Requests |-> FALSE]
    /\ unit = [r \in Requests |-> "none"]
    /\ writes = [r \in Requests |-> 0]
    /\ resp = [r \in Requests |-> NewResponse]
    /\ timer = [r \in Requests |-> <<>>]
    /\ emitted = [r \in Requests |-> <<>>]

(* no request with a body is being handled *)
NoBody == [stage |-> "none"]

CacheEmpty ==
    /\ files = PageFiles
    /\ times = [w \in Workers |-> EmptyCache.times]
    /\ funcs = [w \in Workers |-> EmptyCache.funcs]
    /\ ncompile = [w \in Workers |-> 0]
    /\ calls = [w \in Workers |-> [p \in Paths |-> <<>>]]
    /\ modules = [w \in Workers |-> requireCacheCleanState]

CacheInit ==
    /\ CacheEmpty
    /\ tpl = Unit(<<>>, FALSE)
    /\ breq = NoBody

(* function Session(db, request, response): cookie is the NJSPSESSID of the
   request's cookie header, response whether a response was given *)
NewSession(cookie, response) ==
    [inited |-> FALSE, sid |-> NoSid, expiry |-> 0, setCookie |-> NoSid,
     cookie |-> cookie, response |-> response]

(* the database as earlier requests may have left it: empty, or with the
   row of session 1, which expires after a second *)
StoredTables ==
    {<<>>, <<Row("1", "njspsessid", Stringify("1"), 1)>>}

SessInit(t, s) ==
    /\ table = t
    /\ now = 0
    /\ writer = 0
    /\ sess = s
    /\ pc = [h \in Handles |-> "idle"]
    /\ txn = [h \in Handles |-> NoTxn]
    /\ loc = [h \in Handles |-> NoLocals]
    /\ ret = [h \in Handles |-> "undefined"]
    /\ trace = [h \in Handles |-> <<>>]
    /\ clean = [h \in Handles |-> 0]
    /\ allocLog = <<>>

Init ==
    /\ DispInit
    /\ CacheInit
    /\ SessInit(<<>>, [h \in Handles |-> NewSession(NoSid, TRUE)])

(* what the dispatcher does by itself and what happens to any runner *)
Serving ==
    \/ \E r \in Requests : BodyEnd(r)
    \/ \E w \in Workers : OnMessage(w)
    \/ \E w \in Workers : OnExit(w)
    \/ \E w \in Workers : OnRun(w)
    \/ \E r \in Requests : Settle(r)
    \/ \E r \in Requests : Timeout(r)
    \/ \E w \in Workers : Crash(w)

(* The pool under MaxReq requests, each for a page that may end its response
   early, return or hang. *)
NextPool ==
    \/ \E r \in Requests, m \in {"GET", "POST"} : Request(r, m, "ok", "none")
    \/ \E r \in Requests : PageEnd(r)
    \/ Serving

SpecPool == Init /\ [][NextPool]_vars

(* MaxReq requests, with or without compression, for a page that writes, ends
   its response early, returns or hangs *)
NextShared ==
    \/ \E r \in Requests, enc \in {"none", "gzip"} : Request(r, "GET", "ok", enc)
    \/ \E r \in Requests : PageWrite(r)
    \/ \E r \in Requests : PageEnd(r)
    \/ \E r \in Requests : CompressorData(r)
    \/ \E r \in Requests : CompressorEnd(r)
    \/ \E w \in Workers : OnMessage(w)
    \/ \E w \in Workers : OnExit(w)
    \/ \E w \in Workers : OnRun(w)
    \/ \E r \in Requests : Settle(r)
    \/ \E w \in Workers : Crash(w)

SpecShared == Init /\ [][NextShared]_vars

(* MaxReq requests of any method *)
NextMethods ==
    \/ \E r \in Requests, m \in Methods : Request(r, m, "ok", "none")
    \/ \E r \in Requests : PageEnd(r)
    \/ Serving

SpecMethods == Init /\ [][NextMethods]_vars

(* One request, of any method, for any page, with or without compression,
   whose page writes up to MaxWrites times. *)
Next ==
    \/ \E m \in Methods, p \in Paths, enc \in {"none", "gzip"} : Request(1, m, p, enc)
    \/ \E r \in Requests : PageWrite(r)
    \/ \E r \in Requests, code \in PageCodes, hs \in {NoHeaders, Plain} : PageWriteHead(r, code, hs)
    \/ \E r \in Requests : PageSetHeader(r, "content-type", "text/plain")
    \/ \E r \in Requests : PageEnd(r)
    \/ \E r \in Requests : PageCompressOff(r)
    \/ \E r \in Requests, tl \in PageLimits : PageSetTimeLimit(r, tl)
    \/ \E r \in Requests : CompressorData(r)
    \/ \E r \in Requests : CompressorEnd(r)
    \/ \E r \in Requests : Throw(r)
    \/ Serving

Spec == Init /\ [][Next]_vars

(* The session store under NumSess handles that call init concurrently, and
   then delete; the database starts as earlier requests may have left it *)
InitSess ==
    /\ DispInit
    /\ CacheInit
    /\ \E t \in StoredTables :
       \E s \in [Handles -> {NewSession(NoSid, TRUE), NewSession("1", TRUE),
                               NewSession("1", FALSE)}] :
           SessInit(t, s)

Initing ==
    \/ \E h \in Handles, e \in Expiries : InitCall(h, e)
    \/ \E h \in Handles : InitSchema(h)
    \/ \E h \in Handles : InitCheck(h)
    \/ \E h \in Handles : InitBegin(h)
    \/ \E h \in Handles : InitSelect(h)
    \/ \E h \in Handles : InitInsert(h)
    \/ \E h \in Handles : InitCommit(h)
    \/ \E h \in Handles : InitRollback(h)
    \/ \E h \in Handles : Cleanup(h)

NextSess ==
    \/ Initing
    \/ \E h \in Handles : DeleteCall(h, "njspsessid")
    \/ \E h \in Handles : DeleteRun(h)
    \/ Tick

SpecSess == InitSess /\ [][NextSess]_vars

(* The pages call init and nothing else happens to the database.  Every
   statement of a pending init is eventually run, and Math.random does not
   avoid the identifiers that are free for ever. *)
SpecAlloc == InitSess /\ [][Initing]_vars

InLoop(h) == pc[h] \in {"begin", "select", "insert", "commit", "rollback"}

FreeSids == {c \in Sids : RowsOfSid(table, c) = <<>>}

PicksFree(h) == Initing /\ ~(pc[h] = "begin") /\ pc'[h] = "begin" /\ loc'[h].sid \in FreeSids

FairAlloc ==
    /\ SpecAlloc
    /\ \A h \in Handles :
           /\ WF_vars(InitSchema(h)) /\ WF_vars(InitCheck(h)) /\ WF_vars(InitBegin(h))
           /\ WF_vars(InitSelect(h)) /\ WF_vars(InitInsert(h)) /\ WF_vars(InitCommit(h))
           /\ WF_vars(InitRollback(h)) /\ WF_vars(Cleanup(h))
           /\ SF_vars(PicksFree(h))

(* The pages call init, and call it again, while a second passes *)
NextInit ==
    \/ Initing
    \/ \E h \in Handles : InitAgain(h)
    \/ Tick

SpecInit == InitSess /\ [][NextInit]_vars

(* The pages call init, and the first one reads before init has returned *)
NextEarly ==
    \/ Initing
    \/ Read(1, "get", "njspsessid")
    \/ Read(1, "getAll", "")
    \/ Tick

SpecEarly == InitSess /\ [][NextEarly]_vars

(* The handles after init: each has the session of its cookie, session 1
   for all or a session of its own, with its sentinel row in the database *)
Opened(sid) ==
    [NewSession(sid, TRUE) EXCEPT !.inited = TRUE, !.sid = sid, !.setCookie = sid,
                                  !.expiry = DefaultExpiry]

SentinelRows(n) ==
    [i \in 1..n |-> Row(ToString(i), "njspsessid", Stringify(ToString(i)), DefaultExpiry)]

InitKV ==
    /\ DispInit
    /\ CacheInit
    /\ \/ SessInit(SentinelRows(1), [h \in Handles |-> Opened("1")])
       \/ SessInit(SentinelRows(NumSess), [h \in Handles |-> Opened(ToString(h))])

(* The pages of the handles call get, set and delete, MaxCalls times in all *)
NextKV ==
    \/ \E h \in Handles, k \in Keys : GetCall(h, k)
    \/ \E h \in Handles : GetSelect(h)
    \/ \E h \in Handles, k \in Keys, v \in Values : SetCall(h, k, v)
    \/ \E h \in Handles : SetBegin(h)
    \/ \E h \in Handles : SetDelete(h)
    \/ \E h \in Handles : SetInsert(h)
    \/ \E h \in Handles : SetCommit(h)
    \/ \E h \in Handles : SetRollback(h)
    \/ \E h \in Handles, k \in Keys : DeleteCall(h, k)
    \/ \E h \in Handles : DeleteRun(h)

SpecKV == InitKV /\ [][NextKV]_vars

(* The pages of the handles call set, MaxCalls times in all, with any value *)
Setting ==
    \/ \E h \in Handles : SetBegin(h)
    \/ \E h \in Handles : SetDelete(h)
    \/ \E h \in Handles : SetInsert(h)
    \/ \E h \in Handles : SetCommit(h)
    \/ \E h \in Handles : SetRollback(h)

NextSets ==
    \/ \E h \in Handles, k \in Keys, v \in SetValues : SetCall(h, k, v)
    \/ Setting

SpecSets == InitKV /\ [][NextSets]_vars

(* every statement of a pending set is eventually run *)
FairSets ==
    /\ SpecSets
    /\ \A h \in Handles :
           /\ WF_vars(SetBegin(h)) /\ WF_vars(SetDelete(h)) /\ WF_vars(SetInsert(h))
           /\ WF_vars(SetCommit(h)) /\ WF_vars(SetRollback(h))

(* Any page of up to MaxSegs parts, requested directly or included *)
InitPage ==
    /\ DispInit
    /\ CacheEmpty
    /\ SessInit(<<>>, [h \in Handles |-> NewSession(NoSid, TRUE)])
    /\ \E file \in Pages, included \in BOOLEAN : tpl = Unit(file, included)
    /\ breq = NoBody

NextPage ==
    \/ RunStatement
    \/ UnitReturn

SpecPage == InitPage /\ [][NextPage]_vars

(* Any request with any content type and body, for a page that exists *)
InitBody ==
    /\ DispInit
    /\ CacheEmpty
    /\ SessInit(<<>>, [h \in Handles |-> NewSession(NoSid, TRUE)])
    /\ tpl = Unit(<<>>, FALSE)
    /\ \E h \in BodyHeaders :
           \/ breq = NewBody("GET", h, "none")
           \/ \E data \in BodyData : breq = NewBody("POST", h, data)

NextBody ==
    \/ HandleBody
    \/ BodyUnitWrite
    \/ \E t \in BOOLEAN : BodyUnitSettle(t)

SpecBody == InitBody /\ [][NextBody]_vars

(* One request for a page that requires modules and returns or throws *)
NextRequire ==
    \/ \E m \in {"GET", "POST"} : Request(1, m, "ok", "none")
    \/ \E r \in Requests, m \in PageModules : PageRequire(r, m)
    \/ \E r \in Requests : Throw(r)
    \/ Serving

SpecRequire == Init /\ [][NextRequire]_vars

(* One runner compiles pages again and again while the files change *)
MaxMtime == 2
MaxVer == 2

NextCache ==
    \/ \E w \in Workers, p \in Paths : CompileCall(w, p)
    \/ \E m \in 1..MaxMtime, v \in 1..MaxVer, g \in BOOLEAN : WriteFile("ok", m, v, g)
    \/ RemoveFile("ok")

SpecCache == Init /\ [][NextCache]_vars

(* The dispatcher with its runners while the page is rewritten, with or
   without a syntax error, and removed *)
NextFiles ==
    \/ NextPool
    \/ \E m \in 1..MaxMtime, g \in BOOLEAN : WriteFile("ok", m, 1, g)
    \/ RemoveFile("ok")

SpecFiles == Init /\ [][NextFiles]_vars

(* The scheduling of Node: a pending message, exit event, compressor event
   or timer is eventually handled. *)
Fairness ==
    /\ \A w \in Workers : WF_vars(OnMessage(w)) /\ WF_vars(OnExit(w)) /\ WF_vars(OnRun(w))
    /\ \A r \in Requests : WF_vars(CompressorData(r)) /\ WF_vars(CompressorEnd(r))
    /\ \A r \in Requests : WF_vars(Timeout(r))

FairSpec == Spec /\ Fairness

FairPool == SpecPool /\ Fairness

(***************************************************************************)
(* Properties                                                              *)
(***************************************************************************)
Range(s) == {s[i] : i \in 1..Len(s)}

Kinds(s, K) == SelectSeq(s, LAMBDA m : m.c \in K)

(* C1: every runner in readyThreads has no response bound and is there only
   once; a response is bound to at most one runner; and a response is bound
   only to a runner that has none bound. *)
C1_IdleRunnersAreUnbound ==
    /\ [](/\ \A i \in 1..Len(readyThreads) : cres[readyThreads[i]] = NoRes
          /\ \A i, j \in 1..Len(readyThreads) : i # j => readyThreads[i] # readyThreads[j]
          /\ \A v, w \in Workers : v # w /\ cres[v] # NoRes => cres[v] # cres[w])
    /\ [][\A w \in Workers : cres'[w] # cres[w] /\ cres'[w] # NoRes => cres[w] = NoRes]_vars

(* a runner that served one request is bound to a later one *)
C1_Witness ==
    \E w \in Workers : \E q, r \in Requests :
        q # r /\ cres[w] = r /\ sendLog[q] = <<w>> /\ httpEnded[q] /\ readyThreads # <<>>

(* C2: a GET or POST request that reached go() was sent to exactly one
   runner, a forked one, and is bound to that runner (and no other) until
   its response is ended; none is dropped. *)
C2_EveryRequestIsDispatched ==
    \A r \in Requests :
        reqState[r] \notin {"new", "body", "refused"} =>
            /\ reqState[r] = "sent"
            /\ Len(sendLog[r]) = 1
            /\ sendLog[r][1] \in 1..nSpawned
            /\ ~httpEnded[r] => {w \in Workers : cres[w] = r} = {sendLog[r][1]}

(* request 2 found readyThreads empty: runner 3 was forked for it first *)
C2_Witness ==
    /\ MaxReq >= 2
    /\ reqState[2] = "sent" /\ sendLog[2] = <<3>> /\ nSpawned = 4 /\ cres[3] = 2

C4_HeaderWritesTerminal ==
    \A r \in Requests :
        LET e == Kinds(emitted[r], {"h", "w", "e"})
        IN  /\ Len(Kinds(e, {"h"})) <= 1
            /\ Len(Kinds(e, {"e"})) <= 1
            /\ \A i \in 1..Len(e) : e[i].c = "w" => \E j \in 1..(i - 1) : e[j].c = "h"
            /\ \A i \in 1..Len(e) : e[i].c = "e" => i = Len(e) /\ resp[r].pending = 0

(* a response with a direct and a compressed write, ended by the compressor *)
C4_Witness ==
    \E r \in Requests :
        /\ resp[r].compressor = "closed"
        /\ Len(Kinds(emitted[r], {"w"})) >= 2
        /\ emitted[r][Len(emitted[r])].c = "e"

(* C5: the exit handler leaves the runner out of readyThreads and unbound,
   with the response it had ended; it stays out and unbound ever after *)
C5_DeadRunnerLeavesThePool ==
    /\ [](\A w \in Workers : proc[w] = "reaped" => w \notin Range(readyThreads) /\ cres[w] = NoRes)
    /\ [][\A w \in Workers : proc[w] = "dead" /\ proc'[w] = "reaped" /\ cres[w] # NoRes
              => httpEnded'[cres[w]]]_vars

(* a runner died with a response bound; messages of it are still unread *)
C5_Witness ==
    \E w \in Workers : \E r \in Requests :
        /\ proc[w] = "reaped" /\ host[r] = w /\ unit[r] = "killed" /\ httpEnded[r]
        /\ Kinds(up[w], {"e"}) # <<>>

(* C6: run arms the timer with 30000 ms; when a timer goes off with its unit
   unsettled the process is gone; and the response bound to a runner whose
   process is gone is eventually ended by the dispatcher *)
C6_DeadlineKillsAndResponseEnds ==
    /\ [][\A r \in Requests : unit[r] = "none" /\ unit'[r] = "run" => timer'[r] = <<DefaultTimeLimit>>]_vars
    /\ [][\A r \in Requests : timer[r] # <<>> /\ timer'[r] = <<>> /\ unit'[r] \notin {"done"}
              => proc'[host[r]] = "dead"]_vars
    /\ \A w \in Workers : \A r \in Requests :
           (proc[w] = "dead" /\ cres[w] = r) ~> httpEnded[r]

(* the timer killed the runner and the dispatcher ended the response *)
C6_Witness ==
    \E r \in Requests :
        /\ unit[r] = "killed" /\ nCrash = 0 /\ proc[host[r]] = "reaped"
        /\ httpEnded[r] /\ Kinds(httpLog[r], {"e"}) = <<>>

(* the sentinel rows of the store *)
Sentinels(t) == SelectSeq(t, LAMBDA x : x.key = "njspsessid")

(* handle h came without a cookie and its init has returned with a session *)
Fresh(h) ==
    /\ sess[h].cookie = NoSid /\ sess[h].response
    /\ sess[h].inited /\ pc[h] = "idle" /\ sess[h].sid # NoSid

(* C7: when every handle called init without a session cookie, concurrently
   on the one database, and no session was deleted or has expired since, no
   two handles have the same session identifier and the store holds exactly
   one sentinel row for each of them *)
C7_RacingInitsGetDistinctSids ==
    (\A h \in Handles : Fresh(h) /\ trace[h] = <<>> /\ sess[h].expiry = DefaultExpiry)
    => /\ \A g \in Handles : \A h \in Handles : g # h => sess[g].sid # sess[h].sid
       /\ \A h \in Handles : Len(RowsOfKey(table, sess[h].sid, "njspsessid")) = 1
       /\ Len(SelectSeq(Sentinels(table), LAMBDA x : \E h \in Handles : x.sid = sess[h].sid))
              = NumSess

(* all handles have their own session, and one of them finished init while
   another held the write lock *)
C7_Witness ==
    /\ \A h \in Handles : Fresh(h) /\ trace[h] = <<>> /\ sess[h].expiry = DefaultExpiry
    /\ \E h \in Handles : ret[h] = "SQLITE_BUSY"

(* C8, as stated: init never allocates an identifier it has allocated before *)
C8_SidNeverAllocatedTwice ==
    \A i \in DOMAIN allocLog : \A j \in DOMAIN allocLog : i # j => allocLog[i] # allocLog[j]

(* C8, amended: the identifier init allocates has no row in the store when
   the allocation is committed, and has its sentinel row, alone, right after *)
C8_AllocatedSidHasNoRows ==
    [][\A h \in Handles :
          allocLog' # allocLog /\ pc[h] = "commit" /\ pc'[h] = "cleanup"
          => /\ RowsOfSid(table, sess'[h].sid) = <<>>
             /\ Len(RowsOfSid(table', sess'[h].sid)) = 1]_vars

(* an identifier was allocated, its rows went away, and it was allocated again *)
C8_Witness ==
    \E i \in DOMAIN allocLog : \E j \in DOMAIN allocLog : i < j /\ allocLog[i] = allocLog[j]

(* the last three calls of handle h were set(k, v1), set(k, v2), get(k), and
   no other connection changed the rows of its session meanwhile *)
SetSetGet(h) ==
    LET n == Len(trace[h])
    IN  /\ n >= 3 /\ clean[h] >= 3 /\ sess[h].sid # NoSid
        /\ trace[h][n - 2].op = "set" /\ trace[h][n - 1].op = "set" /\ trace[h][n].op = "get"
        /\ trace[h][n - 2].key = trace[h][n].key /\ trace[h][n - 1].key = trace[h][n].key

(* C9: after set(k, v1), set(k, v2), get(k) on an initialized session, get
   has returned v2 and the store holds exactly one row for (sid, k) *)
C9_SetSetGetReturnsLast ==
    \A h \in Handles :
        SetSetGet(h) =>
            LET n == Len(trace[h])
            IN  /\ trace[h][n].value = trace[h][n - 1].value
                /\ Len(RowsOfKey(table, sess[h].sid, trace[h][n].key)) = 1

(* the two values differ, and another handle of the same session has
   written to the store as well *)
C9_Witness ==
    \E h \in Handles : \E g \in Handles :
        /\ SetSetGet(h) /\ trace[h][Len(trace[h]) - 2].value # trace[h][Len(trace[h]) - 1].value
        /\ g # h /\ sess[g].sid = sess[h].sid /\ trace[g] # <<>> /\ trace[g][1].op = "set"

(* C10: when two consecutive compile calls of a runner for a file saw the
   same modification time and the first returned a unit, the second returned
   the same unit and did not read the file *)
C10_UnchangedFileIsNotRecompiled ==
    \A w \in Workers : \A p \in Paths :
        LET L == calls[w][p]
        IN  Len(L) = 2 /\ L[1].mtime = L[2].mtime /\ L[1].kind = "ok"
            => L[2].kind = "ok" /\ L[2].func = L[1].func /\ ~L[2].read

(* the first call compiled the file, the second returned the cached unit,
   though the file was edited in between with its mtime kept *)
C10_Witness ==
    \E w \in Workers : \E p \in Paths :
        LET L == calls[w][p]
        IN  /\ Len(L) = 2 /\ L[1].mtime = L[2].mtime /\ L[1].kind = "ok" /\ L[1].read
            /\ L[2].func = L[1].func /\ files[p].ver # L[2].func.ver

(* the entry of the last compile call of runner w for file p *)
LastCall(w, p) == calls[w][p][Len(calls[w][p])]

(* C11: a compile call that finds a compilable file with a modification
   time greater than the stored one reads the file, returns a new unit made
   from the content on disk, and stores that unit with the time it saw *)
C11_NewerFileIsRecompiled ==
    [][\A w \in Workers : \A p \in Paths :
          /\ calls'[w][p] # calls[w][p]
          /\ files[p].exists /\ files[p].good
          /\ times[w][p] # NoTime /\ files[p].mtime > times[w][p]
          => LET e == calls'[w][p][Len(calls'[w][p])]
             IN  /\ e.kind = "ok" /\ e.read
                 /\ e.func # funcs[w][p] /\ e.func.ver = files[p].ver
                 /\ funcs'[w][p] = e.func
                 /\ times'[w][p] = files[p].mtime]_vars

(* the file was compiled, rewritten with other content and a later mtime,
   and compiled again *)
C11_Witness ==
    \E w \in Workers : \E p \in Paths :
        LET L == calls[w][p]
        IN  /\ Len(L) = 2 /\ L[1].kind = "ok" /\ L[1].read /\ L[2].kind = "ok" /\ L[2].read
            /\ L[2].mtime > L[1].mtime /\ L[2].func.ver # L[1].func.ver
            /\ funcs[w][p] = L[2].func /\ times[w][p] = L[2].mtime

(* C12: a compile call that throws leaves times and funcs of the runner as
   they were, and the next call for the file, if it sees the same
   modification time, reads the file again *)
C12_FailedCompileIsNotCached ==
    /\ [][\A w \in Workers : \A p \in Paths :
             calls'[w][p] # calls[w][p] /\ calls'[w][p][Len(calls'[w][p])].kind = "throw"
             => times'[w] = times[w] /\ funcs'[w] = funcs[w]]_vars
    /\ [](\A w \in Workers : \A p \in Paths :
             LET L == calls[w][p]
             IN  Len(L) = 2 /\ L[1].kind = "throw" /\ L[2].mtime = L[1].mtime => L[2].read)

(* a page that was cached was rewritten with a syntax error: two calls in a
   row threw, each after reading the file, and the old entry is still there *)
C12_Witness ==
    \E w \in Workers : \E p \in Paths :
        LET L == calls[w][p]
        IN  /\ Len(L) = 2 /\ L[1].kind = "throw" /\ L[2].kind = "throw"
            /\ L[1].read /\ L[2].read /\ L[2].mtime = L[1].mtime
            /\ funcs[w][p] # NoFunc /\ times[w][p] < L[2].mtime

(* the c fields of a sequence of messages *)
Cs(s) == [i \in 1..Len(s) |-> s[i].c]

(* C13: run for a script with no file behind it sends "h" with 404, one
   "w" and "e", and no "x"; the unit is settled and the cache of the runner
   is as it was, also when it holds a unit of the script *)
C13_MissingFileIs404 ==
    [][\A r \in Requests :
          host[r] = 0 /\ host'[r] # 0 /\ ~files[reqMeta[r].path].exists
          => /\ Cs(emitted'[r]) = <<"h", "w", "e">> /\ emitted'[r][1].x = 404
             /\ unit'[r] = "done"
             /\ times' = times /\ funcs' = funcs]_vars

(* the runner answered 404 for a script it still has a unit of *)
C13_Witness ==
    \E r \in Requests :
        /\ host[r] # 0 /\ ~files[reqMeta[r].path].exists
        /\ Cs(emitted[r]) = <<"h", "w", "e">> /\ emitted[r][1].x = 404
        /\ funcs[host[r]][reqMeta[r].path] # NoFunc

(* the runner answered request r with the reply for a page that did not compile *)
CompileFailed(r) ==
    /\ host[r] # 0
    /\ Cs(emitted[r]) = <<"x", "h", "w", "e">> /\ emitted[r][2].x = 500

(* C14: run for a page whose compilation throws sends one "x", "h" with
   500, "w" and "e", and the runner lives on; the dispatcher then puts the
   runner back into readyThreads, unless it has died meanwhile *)
C14_CompileErrorIs500 ==
    /\ [][\A r \in Requests :
             /\ host[r] = 0 /\ host'[r] # 0
             /\ calls'[host'[r]][reqMeta[r].path][Len(calls'[host'[r]][reqMeta[r].path])].kind = "throw"
             => CompileFailed(r)' /\ unit'[r] = "done" /\ proc'[host'[r]] = "up"]_vars
    /\ \A r \in Requests :
           CompileFailed(r)
               ~> (host[r] # 0 /\ (host[r] \in Range(readyThreads) \/ proc[host[r]] # "up"))

(* a runner that answered 500 for a page is alive and back in readyThreads,
   the response ended *)
C14_Witness ==
    \E r \in Requests :
        /\ CompileFailed(r) /\ host[r] \in Range(readyThreads) /\ proc[host[r]] = "up"
        /\ httpEnded[r] /\ Cs(httpLog[r]) = <<"h", "w">> /\ cres[host[r]] = NoRes

(* C15: when the unit of a request throws, the runner sends one "x" with
   the file name of the page and ends the response; no response ever has two
   "x"; and the "e" of a response whose unit threw is sent, at once or by the
   compressor, unless the runner dies first *)
C15_ThrowingUnitIsReportedAndEnded ==
    /\ [][\A r \in Requests :
             ~thrown[r] /\ thrown'[r]
             => /\ Len(Kinds(emitted'[r], {"x"})) = 1
                /\ Kinds(emitted'[r], {"x"})[1].f = reqMeta[r].path
                /\ resp'[r].ended]_vars
    /\ [](\A r \in Requests : Len(Kinds(emitted[r], {"x"})) <= 1)
    /\ \A r \in Requests :
           thrown[r] ~> (host[r] # 0 /\ (Kinds(emitted[r], {"e"}) # <<>> \/ proc[host[r]] # "up"))

(* the page wrote, then threw; the compressor delivered its chunks and "e" *)
C15_Witness ==
    \E r \in Requests :
        /\ thrown[r] /\ writes[r] > 0 /\ resp[r].compressor = "closed"
        /\ Len(Kinds(emitted[r], {"x"})) = 1 /\ Len(Kinds(emitted[r], {"w"})) = writes[r] + 1
        /\ emitted[r][Len(emitted[r])].c = "e"

(* C16: when the unit of a request throws, the marker is written to the
   response if its header was already sent (as a "w" message, or as a chunk
   given to the compressor), and otherwise the "h" message of the response
   carries status 500 *)
C16_ThrownUnitIs500 ==
    [][\A r \in Requests :
          ~thrown[r] /\ thrown'[r]
          => IF resp[r].sentHeaders
             THEN \/ Len(Kinds(emitted'[r], {"w"})) = Len(Kinds(emitted[r], {"w"})) + 1
                  \/ resp'[r].pending = resp[r].pending + 1
             ELSE /\ Kinds(emitted'[r], {"h"}) # <<>>
                  /\ Kinds(emitted'[r], {"h"})[1].x = 500]_vars

(* C17: when a runner reads a run message, every request it read before has
   its "e" message sent already *)
C17_NoRunBeforeTerminal ==
    [][\A r \in Requests :
          host[r] = 0 /\ host'[r] # 0
          => \A q \in Requests \ {r} :
                 host[q] = host'[r] => Kinds(emitted[q], {"e"}) # <<>>]_vars

(* a runner that has served one request is running the unit of another *)
C17_Witness ==
    \E r, q \in Requests :
        /\ r # q /\ host[r] # 0 /\ host[r] = host[q]
        /\ Kinds(emitted[q], {"e"}) # <<>> /\ unit[r] = "run"

(* C18: no runner has the units of two requests running (their promises
   pending) at once, whatever the pages do, response.end() before the async
   function settles included *)
C18_OneUnitPerRunner ==
    \A r, q \in Requests :
        r # q /\ host[r] # 0 /\ host[r] = host[q] => ~(Running(r) /\ Running(q))

(* the "h" messages sent for the response of request r *)
Heads(r) == Kinds(emitted[r], {"h"})

(* C19: a response starts with content-type text/html; the call of the page
   that sends "h" sends the code and the headers the response has at that
   call, which for a write or an end are 200 and the headers set before it;
   nothing sends a second "h" or alters the first, whatever writeHead and
   setHeader do afterwards; and the dispatcher passes on that "h" only *)
C19_FirstCallFixesHeader ==
    /\ [][\A r \in Requests :
             unit[r] = "none" /\ unit'[r] = "run"
             => resp'[r].headers["content-type"] = "text/html" /\ ~resp'[r].sentHeaders]_vars
    /\ [][\A r \in Requests :
             unit[r] = "run" /\ Heads(r) = <<>> /\ Heads(r)' # <<>>
             => /\ ~resp[r].sentHeaders
                /\ Heads(r)'[1].x = resp'[r].code
                /\ Heads(r)'[1].h = resp'[r].headers
                /\ (writes'[r] # writes[r] \/ resp'[r].ended)
                   => Heads(r)'[1].x = 200 /\ Heads(r)'[1].h = resp[r].headers]_vars
    /\ [][\A r \in Requests : Heads(r) # <<>> => Heads(r)' = Heads(r)]_vars
    /\ [](\A r \in Requests :
             /\ Len(Heads(r)) <= 1
             /\ resp[r].sentHeaders <=> Heads(r) # <<>>
             /\ reqState[r] = "sent" => Kinds(httpLog[r], {"h"}) \in {<<>>, Heads(r)})

(* the page wrote with no writeHead before: 200 and text/html went out, and
   the setHeader it called afterwards changed nothing that was sent *)
C19_Witness ==
    \E r \in Requests :
        /\ writes[r] > 0 /\ resp[r].ended /\ resp[r].code = 200
        /\ resp[r].headers["content-type"] = "text/plain"
        /\ Kinds(httpLog[r], {"h"}) = Heads(r)
        /\ Len(Heads(r)) = 1 /\ Heads(r)[1].x = 200
        /\ Heads(r)[1].h["content-type"] = "text/html"

(* the "w" messages sent for the response of request r *)
Chunks(r) == Kinds(emitted[r], {"w"})

(* C20, as stated: once a response is ended no "h" and no "w" message is
   sent for it any more, and no response has two "e" messages *)
C20_NothingSentAfterEnd ==
    /\ [][\A r \in Requests :
             resp[r].ended => Heads(r)' = Heads(r) /\ Chunks(r)' = Chunks(r)]_vars
    /\ [](\A r \in Requests : Len(Kinds(emitted[r], {"e"})) <= 1)

(* C20: once a response is ended it stays ended, a write of the page leaves
   the response and its messages as they are, no "h" is sent, the only "w"
   messages sent are the chunks the compressor still held when end was
   called, and no response has two "e" messages *)
C20_CallsAfterEndAreIgnored ==
    /\ [][\A r \in Requests :
             resp[r].ended
             => /\ resp'[r].ended
                /\ Heads(r)' = Heads(r)
                /\ Len(Chunks(r)') - Len(Chunks(r)) = resp[r].pending - resp'[r].pending
                /\ resp'[r].pending <= resp[r].pending
                /\ writes'[r] # writes[r] => resp'[r] = resp[r] /\ emitted'[r] = emitted[r]]_vars
    /\ [](\A r \in Requests :
             /\ Len(Kinds(emitted[r], {"e"})) <= 1
             /\ resp[r].ended
                => /\ End(resp[r], r) = Quiet(resp[r])
                   /\ \A code \in PageCodes, hs \in {NoHeaders, Plain} :
                          WriteHeadGiven(resp[r], code, hs, r) = Quiet(resp[r]))

(* the page wrote twice without compression, before and after it ended the
   response: one "w" and one "e" were sent *)
C20_Witness ==
    \E r \in Requests :
        /\ unit[r] = "run" /\ resp[r].ended /\ resp[r].compressor = "none"
        /\ writes[r] = MaxWrites
        /\ Len(Chunks(r)) = 1 /\ Len(Kinds(emitted[r], {"e"})) = 1

(* C21: once the compressor of a response exists (a write was given to it),
   every "w" message sent for the response is output of the compressor,
   whatever the page calls afterwards, compress(null) included *)
C21_CompressionStaysOn ==
    [][\A r \in Requests :
          resp[r].compressor # "none"
          => \A i \in (Len(emitted[r]) + 1)..Len(emitted'[r]) :
                 emitted'[r][i].c = "w" => emitted'[r][i].z]_vars

(* C22: a call of init on a handle on which init was called before changes
   neither the handle nor the rows of the table; a handle whose init has
   returned never runs init again, and keeps its sid and its cookie *)
C22_SecondInitIsNoOp ==
    /\ [][\A h \in Handles :
             Len(trace'[h]) > Len(trace[h]) /\ trace'[h][Len(trace'[h])].op = "init"
             => sess' = sess /\ table' = table /\ pc' = pc]_vars
    /\ [][\A h \in Handles :
             sess[h].inited /\ pc[h] = "idle"
             => /\ pc'[h] = "idle"
                /\ sess'[h] = sess[h]]_vars

(* init gave the handle a session and returned, and was called again *)
C22_Witness ==
    \E h \in Handles :
        /\ sess[h].inited /\ pc[h] = "idle" /\ ret[h] = "undefined"
        /\ sess[h].sid # NoSid /\ sess[h].setCookie = sess[h].sid
        /\ RowsOfSid(table, sess[h].sid) # <<>>
        /\ Len(trace[h]) = 2 /\ trace[h][2].op = "init"

(* C23, as stated: when init finds a row for the identifier of the cookie,
   that identifier becomes the sid of the handle; a handle gets its sid in
   no other way than this or by an allocation *)
C23_ValidCookieIsAdopted ==
    [][\A h \in Handles :
          /\ pc[h] = "check" /\ pc'[h] # "check" /\ RowsOfSid(table, sess[h].cookie) # <<>>
             => sess'[h].sid = sess[h].cookie
          /\ sess'[h].sid # sess[h].sid => pc[h] \in {"check", "commit"}]_vars

(* C23: with a response, init takes the identifier of the cookie as the sid
   of the handle when it finds a row for it, and otherwise (no cookie, or no
   row) goes on to allocate; the sid a handle gets is the cookie's, with a row
   in the store, or an allocated one, with no row in the store before *)
C23_ValidCookieIsAdoptedWithResponse ==
    [][\A h \in Handles :
          /\ pc[h] = "check" /\ pc'[h] # "check" /\ sess[h].response
             => IF RowsOfSid(table, sess[h].cookie) # <<>>
                THEN sess'[h].sid = sess[h].cookie /\ allocLog' = allocLog
                ELSE sess'[h].sid = NoSid /\ pc'[h] = "begin"
          /\ pc[h] = "schema" /\ pc'[h] # "schema" /\ sess[h].response /\ sess[h].cookie = NoSid
             => sess'[h].sid = NoSid /\ pc'[h] = "begin"
          /\ sess'[h].sid # sess[h].sid
             => /\ sess[h].sid = NoSid /\ sess[h].response
                /\ \/ /\ pc[h] = "check" /\ sess'[h].sid = sess[h].cookie
                      /\ RowsOfSid(table, sess'[h].sid) # <<>>
                   \/ /\ pc[h] = "commit" /\ allocLog' = Append(allocLog, sess'[h].sid)
                      /\ RowsOfSid(table, sess'[h].sid) = <<>>]_vars

(* one handle has the session of its cookie, the other one, whose cookie
   named no row any more, an allocated one *)
C23_Witness ==
    \E h, g \in Handles :
        /\ h # g
        /\ sess[h].cookie = "1" /\ sess[h].sid = "1" /\ sess[h].setCookie = "1"
        /\ sess[g].cookie = "1" /\ sess[g].sid # NoSid /\ allocLog = <<sess[g].sid>>
        /\ pc[h] = "idle" /\ pc[g] = "idle"

(* C24: a handle without a response never has a sid or a cookie to set, its
   init never opens a transaction, and no step of its init changes a row or
   allocates an identifier *)
C24_NoResponseNoSession ==
    /\ [](\A h \in Handles :
             ~sess[h].response
             => /\ sess[h].sid = NoSid /\ sess[h].setCookie = NoSid
                /\ pc[h] \in {"idle", "schema", "check"} /\ txn[h] = NoTxn /\ writer # h)
    /\ [][\A h \in Handles :
             ~sess[h].response /\ pc'[h] # pc[h]
             => table' = table /\ allocLog' = allocLog]_vars

(* init has returned on a handle without a response whose cookie names a
   session that has a row *)
C24_Witness ==
    \E h \in Handles :
        /\ ~sess[h].response /\ sess[h].inited /\ pc[h] = "idle"
        /\ sess[h].cookie = "1" /\ RowsOfSid(table, "1") # <<>>
        /\ sess[h].sid = NoSid

(* handle h has just been answered a call of get or getAll *)
WasRead(h) ==
    /\ Len(trace'[h]) > Len(trace[h])
    /\ trace'[h][Len(trace'[h])].op \in {"get", "getAll"}

(* C25, as stated: get and getAll on a handle whose init was not called or
   has not returned give false or null *)
C25_EarlyReadIsAbsent ==
    [][\A h \in Handles :
          WasRead(h) /\ (~sess[h].inited \/ pc[h] \in InitPcs)
          => LET c == trace'[h][Len(trace'[h])]
             IN  IF c.op = "get" THEN c.value \in {"false", "null"}
                 ELSE sess[h].sid = NoSid /\ c.value = "null"]_vars

(* C25: a handle has no sid before init was called and until init has
   committed its row or found the cookie's, and by then its cookie is set;
   get and getAll on a handle without a sid give false and null and change
   nothing; once the sid is set, while cleanup is pending, they give what the
   store holds for the session *)
C25_ReadWithoutSidIsAbsent ==
    /\ [](\A h \in Handles :
             /\ ~sess[h].inited \/ pc[h] \in InitPcs \ {"cleanup"} => sess[h].sid = NoSid
             /\ sess[h].sid # NoSid => sess[h].setCookie = sess[h].sid)
    /\ [][\A h \in Handles :
             WasRead(h)
             => /\ table' = table /\ sess' = sess /\ pc' = pc
                /\ LET c == trace'[h][Len(trace'[h])]
                   IN  IF sess[h].sid = NoSid
                       THEN c.value = (IF c.op = "get" THEN "false" ELSE "null")
                       ELSE /\ pc[h] = "cleanup"
                            /\ c.op = "getAll"
                               => c.value = AllOf(RowsOfSid(table, sess[h].sid))]_vars

(* get was answered false while init was allocating, and getAll was then
   answered the row of the session while cleanup was pending *)
C25_Witness ==
    \E h \in Handles :
        /\ pc[h] = "cleanup" /\ Len(trace[h]) = 2
        /\ trace[h][1].op = "get" /\ trace[h][1].value = "false"
        /\ trace[h][2].op = "getAll" /\ DOMAIN trace[h][2].value = {"njspsessid"}

(* C26: when the DELETE of cleanup has run, the table holds the rows that
   expire after now, of whatever session, in their order, and no others; when
   it failed the table is as before *)
C26_CleanupDeletesExpiredRows ==
    [][\A h \in Handles :
          pc[h] = "cleanup" /\ pc'[h] = "idle"
          => IF ret'[h] = "undefined"
             THEN table' = SelectSeq(table, LAMBDA x : x.expires > now)
             ELSE table' = table]_vars

(* the row of session 1 has expired and is gone, although a handle holds
   that session; the row of an allocated session is still there *)
C26_Witness ==
    \E g \in Handles :
        /\ now = 1 /\ sess[g].sid = "1" /\ allocLog = <<"2">>
        /\ RowsOfSid(table, "1") = <<>> /\ Len(table) = 1
        /\ \A h \in Handles : pc[h] = "idle" /\ ret[h] = "undefined"

(* C27: no call of init or delete is answered with the SQLITE_BUSY error of
   a statement *)
C27_ConflictNeverSurfaces ==
    \A h \in Handles :
        /\ ret[h] # "SQLITE_BUSY"
        /\ \A i \in DOMAIN trace[h] : trace[h][i].op = "delete" => trace[h][i].value # "SQLITE_BUSY"

(* the number of statements of the unit that come from text and tags *)
Content(code) == Len(SelectSeq(code, LAMBDA c : c # "guard"))

(* C28: the unit of a page with a no-direct tag, when it has returned, has
   run none of the page's statements and its "h" message carries a status of
   500 to 599 if module.included was not set, and has run all of them if it
   was set *)
C28_NoDirectPageRefuses ==
    (tpl.ip = Len(tpl.code) + 2 /\ \E i \in DOMAIN tpl.file : tpl.file[i] = "nodirect")
    => IF tpl.included
       THEN tpl.ran = Content(tpl.code)
       ELSE /\ tpl.ran = 0
            /\ Len(Kinds(tpl.out, {"h"})) = 1
            /\ Kinds(tpl.out, {"h"})[1].x \in 500..599

(* C29, as stated: readyThreads is not empty when go() has sent a request,
   and not empty when go() is called for the next one *)
C29_AlwaysAnIdleRunner ==
    [][sendLog' # sendLog => readyThreads' # <<>> /\ readyThreads # <<>>]_vars

(* C29: when go() has sent a request readyThreads is not empty: go() has
   forked a runner for the request if there was none ready, and one more if
   none was left after the shift; readyThreads can be empty before *)
C29_SpareRunnerAfterDispatch ==
    [][sendLog' # sendLog
       => /\ readyThreads' # <<>>
          /\ nSpawned' - nSpawned = (IF Len(readyThreads) = 0 THEN 2
                                     ELSE IF Len(readyThreads) = 1 THEN 1 ELSE 0)
          /\ Len(readyThreads) <= 1 => readyThreads' = <<nSpawned'>>]_vars

(* the ready runners had all exited when the second request came: go()
   forked one for it and a spare one *)
C29_Witness ==
    /\ Len(sendLog[1]) = 1 /\ Len(sendLog[2]) = 1
    /\ nSpawned = 4 /\ sendLog[2] = <<3>> /\ readyThreads = <<4>>

(* C30: when the dispatcher reads a message of a runner that has a response
   bound, an "h", "w" or "x" message is passed on to that response, after
   what was passed on before, and an "e" message ends the response, unbinds
   it and puts the runner back on readyThreads *)
C30_MessagesAreRelayedInOrder ==
    [][\A w \in Workers :
          up[w] # <<>> /\ up'[w] = Tail(up[w]) /\ cres[w] # NoRes
          => LET msg == Head(up[w])
                 r == cres[w]
             IN  IF msg.c = "e"
                 THEN /\ httpEnded'[r] /\ cres'[w] = NoRes
                      /\ readyThreads' = Append(readyThreads, w)
                 ELSE httpLog'[r] = Append(httpLog[r], msg)]_vars

(* the runners that have a response bound *)
Busy == {w \in Workers : cres[w] # NoRes}

(* C31: whenever readyThreads holds more runners than there are busy ones
   plus a slack of one, it later holds no more than that *)
C31_IdleRunnersAreTerminated ==
    (Len(readyThreads) > Cardinality(Busy) + 1) ~> (Len(readyThreads) <= Cardinality(Busy) + 1)

(* C32: a request never has more than one timer armed; a setTimeLimit(tl)
   leaves exactly the timer of delay tl armed; and a request whose unit has
   settled has none, so none can go off for it *)
C32_OneTimerAndNoneAfterSettling ==
    /\ [](\A r \in Requests : Len(timer[r]) <= 1 /\ (unit[r] = "done" => timer[r] = <<>>))
    /\ [][\A r \in Requests :
              unit[r] = "run" /\ unit'[r] = "run" /\ timer'[r] # timer[r] /\ proc'[host[r]] = "up"
                  => \E tl \in PageLimits : timer'[r] = <<tl>>]_vars

(* the page called setTimeLimit: the timer of 30000 ms is replaced *)
C32_Witness ==
    \E r \in Requests, tl \in PageLimits : unit[r] = "run" /\ timer[r] = <<tl>>

(* C33: when the unit of a request has settled, require.cache of its runner
   holds nothing but what it held before the request began (each runner
   serves one request here, so that is the cache it started with) *)
C33_SettledCacheHasNothingNew ==
    \A r \in Requests : unit[r] = "done" => modules[host[r]] \subseteq requireCacheCleanState

(* C34: once run has handled the body of a POST request, a failure of the
   parser is recorded in bodyException; for a supported content type exactly
   one of body and bodyException is present; and the unit is executed and
   the response ended whether or not the parser failed *)
C34_BodyOrBodyException ==
    breq.stage \in {"parsed", "done"} /\ breq.m = "POST" =>
        /\ (ContentType(breq.h) \in Supported => (breq.body # breq.bodyException))
        /\ (breq.stage = "done" => breq.ran /\ breq.res.ended /\ Kinds(breq.out, {"e"}) # <<>>)

(* C35: the allocation loop of init is left only by the COMMIT of a
   transaction that inserted the sentinel row of a candidate for which the
   database held no row; after a collision, and after a failed statement and
   its ROLLBACK, the transaction is over, the database is as it was and the
   loop goes round with a candidate drawn again; and a handle in the loop
   leaves it, unless the identifiers run out *)
C35_AllocationLoopEndsOnlyOnCommit ==
    /\ [][\A h \in Handles : InLoop(h) /\ ~InLoop(h)' =>
              /\ pc[h] = "commit" /\ txn[h].mode = "write"
              /\ RowsOfSid(table, loc[h].sid) = <<>>
              /\ \E i \in DOMAIN table' :
                     table'[i].sid = loc[h].sid /\ table'[i].key = "njspsessid"
              /\ sess'[h].sid = loc[h].sid]_vars
    /\ [][\A h \in Handles :
              (pc[h] = "commit" /\ loc[h].row) \/ pc[h] = "rollback" =>
                  (pc'[h] # pc[h] => pc'[h] = "begin" /\ txn'[h] = NoTxn /\ table' = table)]_vars
    /\ \A h \in Handles : InLoop(h) ~> (~InLoop(h) \/ FreeSids = {})

(* two handles without a cookie have both left the loop, one of them after
   it had to go round again *)
C35_Witness ==
    /\ \A h \in Handles : sess[h].cookie = NoSid /\ sess[h].sid # NoSid /\ ~InLoop(h)
    /\ Len(allocLog) = NumSess

(* C36: every h and w message the dispatcher has written to the response of
   a request was sent by the runner on behalf of the Response object of that
   request *)
C36_NoMessageOfAnotherRequest ==
    \A r \in Requests : \A i \in DOMAIN httpLog[r] :
        httpLog[r][i].c \in {"h", "w"} => httpLog[r][i].of = r

(* the page of request 1 ended its response early and its unit is still
   running while its runner serves request 2, which has been written to *)
C36_Witness ==
    /\ unit[1] = "run" /\ resp[1].ended /\ host[2] = host[1] /\ unit[2] = "run"
    /\ Kinds(httpLog[2], {"w"}) # <<>> /\ writes[1] = MaxWrites

(* the values of the set(key, ..) calls that have returned on the handles of
   session sid *)
ValuesSet(sid, key) ==
    {v \in SetValues :
        \E h \in Handles :
            /\ sess[h].sid = sid
            /\ \E i \in DOMAIN trace[h] :
                   trace[h][i].op = "set" /\ trace[h][i].key = key /\ trace[h][i].value = v}

(* C37: when no call is pending and set was called for (sid, key), the
   database holds exactly one row for (sid, key), whose value is that of one
   of the calls *)
C37_OneRowAfterConcurrentSets ==
    (\A h \in Handles : pc[h] = "idle") =>
        \A sid \in Sids : \A key \in Keys :
            ValuesSet(sid, key) # {} =>
                /\ Len(RowsOfKey(table, sid, key)) = 1
                /\ \E v \in ValuesSet(sid, key) : RowsOfKey(table, sid, key)[1].value = Stringify(v)

(* the handles of one session have each called set once, for the same key
   and with different values, and all calls have returned *)
C37_Witness ==
    /\ \A h \in Handles : pc[h] = "idle" /\ sess[h].sid = "1" /\ Len(trace[h]) = 1
    /\ Cardinality(ValuesSet("1", "k")) = NumSess

(* C39: a set call that is under way returns, whatever its value, unless a
   call of another handle is under way as well *)
C39_EverySetReturns ==
    \A h \in Handles :
        (pc[h] \in {"s_begin", "s_delete", "s_insert", "s_commit", "s_rollback"})
            ~> (pc[h] = "idle" \/ \E g \in Handles \ {h} : pc[g] # "idle")

(* C38: when init returns on a handle that has a session identifier, the
   database holds a row with that identifier *)
C38_ReturnedSidHasARow ==
    [][\A h \in Handles :
          pc[h] \in InitPcs /\ pc'[h] = "idle" /\ sess'[h].sid # NoSid
              => RowsOfSid(table', sess'[h].sid) # <<>>]_vars

(* C40: the step in which a request of a method other than GET and POST
   arrives writes the head 501 to its response and ends it, and leaves
   readyThreads, the runners, their bindings and their channels as they are *)
C40_OtherMethodsGet501 ==
    [][\A r \in Requests : \A m \in Methods \ {"GET", "POST"} :
           Request(r, m, "ok", "none") =>
               /\ Len(httpLog'[r]) = 1 /\ httpLog'[r][1].c = "h" /\ httpLog'[r][1].x = 501
               /\ httpEnded'[r]
               /\ UNCHANGED <<readyThreads, nSpawned, cres, sendLog, proc, down, up>>]_vars

(* a request was answered 501 while another request was bound to a runner,
   and no runner was sent it *)
C40_Witness ==
    \E r \in Requests :
        /\ reqState[r] = "refused" /\ httpEnded[r] /\ sendLog[r] = <<>>
        /\ \E w \in Workers : cres[w] \notin {NoRes, r}

====
